---- MODULE Spec2Model ----
(***************************************************************************)
(* Model of the knowledge-graph link generator                             *)
(* (POST /api/knowledge-graph/generate-links, src/unnamed/part_008) and of *)
(* the knowledge_graph_links table it writes (migration appended to        *)
(* src/middleware.ts).                                                     *)
(*                                                                         *)
(* Modelling decisions:                                                    *)
(*  - a JavaScript string is a sequence of one-character strings;          *)
(*  - a JavaScript number is an exact rational <<num, den>> with den > 0   *)
(*    (IEEE rounding is not modelled);                                     *)
(*  - a JSON value is a tagged record ("null", "num", "str", "arr", "obj");*)
(*  - the handler is cut at its await points; the pair loop, which is      *)
(*    synchronous in the source, is stepped one comparison at a time and   *)
(*    is never interleaved with another request's loop;                    *)
(*  - one upsert statement is atomic in the store: it writes the whole     *)
(*    batch or, on an error, nothing.                                      *)
(***************************************************************************)
EXTENDS Integers, Sequences, FiniteSets, TLC

(***************************************************************************)
(* Bounds of the model.                                                    *)
(***************************************************************************)
\* largest number of entries of owner "u1" in a small database
MaxEntries == 3
\* number of entries of owner "u1" in the large database (three batches)
BigEntries == 21
\* number of entries of owner "u1" in the medium database (two batches)
MidEntries == 15
\* number of distinct long words of the longest key point
ManyWords == 16

(***************************************************************************)
(* Program constants.                                                      *)
(***************************************************************************)
\* part_008:17  .filter(w => w.length > 4)
MinWordLength == 4
\* part_008:43  .slice(0, 15)
MaxKeywords == 15
\* part_008:104 body.maxLinks || 1000
DefaultMaxLinks == 1000
\* part_008:187 const batchSize = 100
batchSize == 100
\* part_008:154 sharedKeywords.length >= 2
MinShared == 2

(***************************************************************************)
(* Numbers: exact rationals.                                               *)
(***************************************************************************)
RECURSIVE GCD(_, _)
GCD(a, b) == IF b = 0 THEN a ELSE GCD(b, a % b)

Abs(x) == IF x < 0 THEN -x ELSE x

\* the rational n/d in lowest terms (d > 0)
Rat(n, d) ==
  LET g == GCD(Abs(n), d) IN <<n \div g, d \div g>>

RatLeq(a, b) == a[1] * b[2] <= b[1] * a[2]

RatLess(a, b) == a[1] * b[2] < b[1] * a[2]

RatAdd(a, b) == Rat(a[1] * b[2] + b[1] * a[2], a[2] * b[2])

\* Math.min
RatMin(a, b) == IF RatLeq(a, b) THEN a ELSE b

Zero == Rat(0, 1)

One == Rat(1, 1)

\* part_008:103 the default of minSimilarity, 0.15
DefaultMinSimilarity == Rat(15, 100)

\* part_008:156 the same-category boost, 0.1
categoryBoostValue == Rat(1, 10)

\* a field that the JSON body does not have (undefined)
Absent == <<>>

\* JavaScript truthiness of a body field that is a number or undefined
Truthy(v) == v # Absent /\ v[1] # 0

\* JavaScript  v || dflt
OrDefault(v, dflt) == IF Truthy(v) THEN v ELSE dflt

(***************************************************************************)
(* Strings: sequences of characters.                                       *)
(***************************************************************************)
UpperChars ==
  <<"A","B","C","D","E","F","G","H","I","J","K","L","M",
    "N","O","P","Q","R","S","T","U","V","W","X","Y","Z">>

LowerChars ==
  <<"a","b","c","d","e","f","g","h","i","j","k","l","m",
    "n","o","p","q","r","s","t","u","v","w","x","y","z">>

DigitChars == {"0","1","2","3","4","5","6","7","8","9"}

Range(s) == {s[k] : k \in 1..Len(s)}

\* String.prototype.toLowerCase on one character
ToLowerChar(c) ==
  IF c \in Range(UpperChars)
  THEN LowerChars[CHOOSE k \in 1..26 : UpperChars[k] = c]
  ELSE c

toLowerCase(s) == [k \in 1..Len(s) |-> ToLowerChar(s[k])]

\* the regular expression class \w : [A-Za-z0-9_]
IsWordChar(c) ==
  c \in Range(UpperChars) \cup Range(LowerChars) \cup DigitChars \cup {"_"}

\* the regular expression class \s (the white space of the model's alphabet)
IsSpaceChar(c) == c \in {" ", "\t", "\n"}

\* .replace(/[^\w\s]/g, ' ')
replacePunctuation(s) ==
  [k \in 1..Len(s) |->
     IF IsWordChar(s[k]) \/ IsSpaceChar(s[k]) THEN s[k] ELSE " "]

\* .split(/\s+/) : the pieces between maximal runs of white space, empty
\* pieces at the two ends included
RECURSIVE SplitFrom(_, _, _, _)
SplitFrom(s, k, cur, inSpace) ==
  IF k > Len(s) THEN <<cur>>
  ELSE IF IsSpaceChar(s[k])
       THEN IF inSpace
            THEN SplitFrom(s, k + 1, cur, TRUE)
            ELSE <<cur>> \o SplitFrom(s, k + 1, <<>>, TRUE)
       ELSE SplitFrom(s, k + 1, Append(cur, s[k]), FALSE)

splitWhitespace(s) == SplitFrom(s, 1, <<>>, FALSE)

\* a filter that keeps every piece
KeepAllWords(ws) == ws

\* Array.prototype.filter(w => w.length > 4)
LongWords(ws) == SelectSeq(ws, LAMBDA w : Len(w) > MinWordLength)

\* the words of one key point or main idea (a string)
PointWords(point) ==
  LongWords(splitWhitespace(replacePunctuation(toLowerCase(point))))

\* [...new Set(xs)] : first occurrences, in order
RECURSIVE Dedupe(_)
Dedupe(xs) ==
  IF xs = <<>> THEN <<>>
  ELSE LET front == Dedupe(SubSeq(xs, 1, Len(xs) - 1))
           last == xs[Len(xs)]
       IN IF last \in Range(front) THEN front ELSE Append(front, last)

\* Array.prototype.slice(0, n)
Slice0(xs, n) == SubSeq(xs, 1, IF Len(xs) < n THEN Len(xs) ELSE n)

RECURSIVE Flatten(_)
Flatten(xss) ==
  IF xss = <<>> THEN <<>> ELSE Head(xss) \o Flatten(Tail(xss))

commonWords ==
  { <<"t","h","a","t">>, <<"t","h","i","s">>, <<"w","i","t","h">>,
    <<"f","r","o","m">>, <<"h","a","v","e">>, <<"t","h","e","i","r">>,
    <<"w","o","u","l","d">>, <<"a","b","o","u","t">>,
    <<"t","h","e","r","e">>, <<"w","h","i","c","h">>,
    <<"c","o","u","l","d">>, <<"o","t","h","e","r">>,
    <<"t","h","e","s","e">>, <<"t","h","o","s","e">>,
    <<"b","e","i","n","g">>, <<"s","h","o","u","l","d">>,
    <<"w","h","e","r","e">>, <<"w","h","i","l","e">>,
    <<"a","f","t","e","r">>, <<"b","e","f","o","r","e">>,
    <<"t","h","r","o","u","g","h">>, <<"d","u","r","i","n","g">>,
    <<"b","e","t","w","e","e","n">> }

(***************************************************************************)
(* JSON values.                                                            *)
(***************************************************************************)
JNull == [tag |-> "null"]

JUndefined == [tag |-> "undefined"]

JNum == [tag |-> "num"]

JStr(s) == [tag |-> "str", chars |-> s]

JArr(items) == [tag |-> "arr", items |-> items]

JSummary(kp, mi) == [tag |-> "obj", key_points |-> kp, main_ideas |-> mi]

\* summaryJson?.key_points && Array.isArray(summaryJson.key_points), then
\* forEach: the words of the field, and whether the callback threw (an
\* element that is no string has no toLowerCase)
FieldWords(v) ==
  IF v.tag = "arr"
  THEN [threw |-> \E k \in 1..Len(v.items) : v.items[k].tag # "str",
        words |-> Flatten([k \in 1..Len(v.items) |->
                    IF v.items[k].tag = "str"
                    THEN PointWords(v.items[k].chars) ELSE <<>>])]
  ELSE [threw |-> FALSE, words |-> <<>>]

\* a cut to 15 before the duplicates and the common words are removed
uniqueKeywordsCutFirst(keywords) ==
  SelectSeq(Dedupe(Slice0(keywords, MaxKeywords)),
            LAMBDA w : w \notin commonWords)

\* part_008:41-43  the unique keywords without the common words, cut
uniqueKeywords(keywords) ==
  Slice0(SelectSeq(Dedupe(keywords), LAMBDA w : w \notin commonWords),
         MaxKeywords)

\* part_008:7-45  the body of the try block: what it returns, or that it
\* threw
TryExtract(summaryJson) ==
  IF summaryJson.tag # "obj"
  THEN [threw |-> FALSE, value |-> uniqueKeywords(<<>>)]
  ELSE LET kp == FieldWords(summaryJson.key_points)
           mi == FieldWords(summaryJson.main_ideas)
       IN IF kp.threw \/ mi.threw
          THEN [threw |-> TRUE, value |-> <<>>]
          ELSE [threw |-> FALSE, value |-> uniqueKeywords(kp.words \o mi.words)]

\* a function without the catch block
NoCatch(result) == result

\* part_008:46-49  catch (error) { ...; return []; }
Catch(result) ==
  IF result.threw THEN [threw |-> FALSE, value |-> <<>>] ELSE result

\* the call of extractKeywords: its return value, or that it threw
extractKeywordsCall(summaryJson) == Catch(TryExtract(summaryJson))

extractKeywords(summaryJson) == extractKeywordsCall(summaryJson).value

(***************************************************************************)
(* calculateSimilarity                                                     *)
(***************************************************************************)
\* shared keywords in the order of the second list
calculateSharedOfSecond(keywords1, keywords2) ==
  LET set1 == Range(keywords1)
      sharedKeywords == SelectSeq(keywords2, LAMBDA k : k \in set1)
      totalUniqueKeywords == Cardinality(set1 \cup Range(keywords2))
  IN [sharedKeywords |-> sharedKeywords,
      similarity |-> IF totalUniqueKeywords > 0
                     THEN Rat(Len(sharedKeywords), totalUniqueKeywords)
                     ELSE Zero]

\* the Dice coefficient instead of the Jaccard coefficient
calculateDice(keywords1, keywords2) ==
  LET set2 == Range(keywords2)
      sharedKeywords == SelectSeq(keywords1, LAMBDA k : k \in set2)
      total == Len(keywords1) + Len(keywords2)
  IN [sharedKeywords |-> sharedKeywords,
      similarity |-> IF total > 0
                     THEN Rat(2 * Len(sharedKeywords), total)
                     ELSE Zero]

\* a similarity relative to the first list only
calculateOverlapOfFirst(keywords1, keywords2) ==
  LET set2 == Range(keywords2)
      sharedKeywords == SelectSeq(keywords1, LAMBDA k : k \in set2)
  IN [sharedKeywords |-> sharedKeywords,
      similarity |-> IF Len(keywords1) > 0
                     THEN Rat(Len(sharedKeywords), Len(keywords1))
                     ELSE Zero]

calculateSimilarity(keywords1, keywords2) ==
  LET set2 == Range(keywords2)
      sharedKeywords == SelectSeq(keywords1, LAMBDA k : k \in set2)
      totalUniqueKeywords == Cardinality(Range(keywords1) \cup set2)
  IN [sharedKeywords |-> sharedKeywords,
      similarity |-> IF totalUniqueKeywords > 0
                     THEN Rat(Len(sharedKeywords), totalUniqueKeywords)
                     ELSE Zero]

(***************************************************************************)
(* The stores: the knowledgebase table and the knowledge_graph_links table *)
(***************************************************************************)
VARIABLES
  knowledgebase,  \* the entries of all owners, newest first (created_at)
  links,          \* the rows of knowledge_graph_links
  nextLinkId,     \* the next value of gen_random_uuid() for links.id
  env,            \* the environment: which requests arrive, how many,
                  \* whether they overlap, what the store may answer
  runs,           \* per request: the handler's position and locals
  lastWrite,      \* history: per key, the values of the last upsert on it
  rateLimitCache, \* the LRU cache of request timestamps, least recent first
  now,            \* Date.now(), in milliseconds
  traffic,        \* the environment of the rate limiter: who calls which
                  \* path, what the quota check answers
  inflight,       \* the API requests between the middleware and the route
  arrived,        \* the number of API requests so far
  accepted,       \* history: per user and path, the times within the
                  \* last window of the calls that were not limited
  lastCall,       \* history: the latest createRateLimiter call
  pdfArrived,     \* history: per user, the arrival times within the last
                  \* window of the process-pdf requests
  lastResponse    \* history: the latest answer to an API request

limiterVars ==
  <<rateLimitCache, now, traffic, inflight, arrived, accepted, lastCall,
    pdfArrived, lastResponse>>

vars ==
  <<knowledgebase, links, nextLinkId, env, runs, lastWrite, limiterVars>>

\* the first and the second request
RunIds == {1, 2}

Owners == {"u1", "u2"}

\* the conflict target of the upsert and the columns of unique_link
LinkKey(row) == <<row.user_id, row.source_kb_id, row.target_kb_id>>

Keys(rows) == {LinkKey(row) : row \in rows}

\* CONSTRAINT different_nodes
different_nodes(row) == row.source_kb_id # row.target_kb_id

\* CONSTRAINT valid_strength
valid_strength(row) ==
  RatLeq(Zero, row.link_strength) /\ RatLeq(row.link_strength, One)

\* CONSTRAINT unique_link, as a property of the table
unique_link(table) == Cardinality(Keys(table)) = Cardinality(table)

\* whether the store executes the statement: the checks of the table, the
\* row level security policies for the caller uid, and no key twice in one
\* ON CONFLICT DO UPDATE statement
StoreAccepts(batch, uid) ==
  /\ \A k \in 1..Len(batch) :
       /\ different_nodes(batch[k])
       /\ valid_strength(batch[k])
       /\ batch[k].user_id = uid
  /\ \A k, m \in 1..Len(batch) :
       LinkKey(batch[k]) = LinkKey(batch[m]) => k = m

\* a statement that inserts every row and resolves no conflict
UpsertInsertOnly(table, batch, firstId) ==
  table \cup {[id |-> firstId + k - 1,
               user_id |-> batch[k].user_id,
               source_kb_id |-> batch[k].source_kb_id,
               target_kb_id |-> batch[k].target_kb_id,
               link_type |-> batch[k].link_type,
               link_strength |-> batch[k].link_strength,
               shared_keywords |-> batch[k].shared_keywords] :
              k \in 1..Len(batch)}

\* a statement that first deletes the stored rows of the owner of the batch
UpsertReplaceOwner(table, batch, firstId) ==
  UpsertInsertOnly({row \in table :
                      \A k \in 1..Len(batch) : row.user_id # batch[k].user_id},
                   batch, firstId)

\* .upsert(batch, {onConflict: 'user_id,source_kb_id,target_kb_id',
\*                 ignoreDuplicates: false})
Upsert(table, batch, firstId) ==
  LET batchKeys == {LinkKey(batch[k]) : k \in 1..Len(batch)}
      fresh == {k \in 1..Len(batch) : LinkKey(batch[k]) \notin Keys(table)}
      rowOf(key) == batch[CHOOSE k \in 1..Len(batch) : LinkKey(batch[k]) = key]
      updated == {[old EXCEPT
                     !.link_type = rowOf(LinkKey(old)).link_type,
                     !.link_strength = rowOf(LinkKey(old)).link_strength,
                     !.shared_keywords = rowOf(LinkKey(old)).shared_keywords] :
                  old \in {row \in table : LinkKey(row) \in batchKeys}}
      inserted == {[id |-> firstId + Cardinality({m \in fresh : m < k}),
                    user_id |-> batch[k].user_id,
                    source_kb_id |-> batch[k].source_kb_id,
                    target_kb_id |-> batch[k].target_kb_id,
                    link_type |-> batch[k].link_type,
                    link_strength |-> batch[k].link_strength,
                    shared_keywords |-> batch[k].shared_keywords] :
                   k \in fresh}
  IN {row \in table : LinkKey(row) \notin batchKeys} \cup updated \cup inserted

\* a select that does not filter on the owner
SelectAllEntries(kb, uid) == kb

\* .from('knowledgebase').select(...).eq('user_id', user.id)
\*   .order('created_at', {ascending: false})
SelectEntries(kb, uid) == SelectSeq(kb, LAMBDA e : e.user_id = uid)

(***************************************************************************)
(* The handler's pure steps.                                               *)
(***************************************************************************)
\* a gate on the boosted similarity
PassesGateBoosted(similarity, sharedKeywords, minSimilarity) ==
  /\ RatLeq(minSimilarity, RatAdd(similarity, categoryBoostValue))
  /\ Len(sharedKeywords) >= MinShared

\* part_008:154 similarity >= minSimilarity && sharedKeywords.length >= 2
PassesGate(similarity, sharedKeywords, minSimilarity) ==
  /\ RatLeq(minSimilarity, similarity)
  /\ Len(sharedKeywords) >= MinShared

\* a boost for every pair
boostAlways(category1, category2) == categoryBoostValue

\* part_008:156  entry1.category === entry2.category ? 0.1 : 0
categoryBoost(category1, category2) ==
  IF category1 = category2 THEN categoryBoostValue ELSE Zero

\* a strength that is not clamped
finalStrengthUnclamped(similarity, category1, category2) ==
  RatAdd(similarity, categoryBoost(category1, category2))

\* part_008:156-157
finalStrength(similarity, category1, category2) ==
  RatMin(RatAdd(similarity, categoryBoost(category1, category2)), One)

\* part_008:159-166
LinkRow(uid, entry1, entry2, sharedKeywords, similarity) ==
  [user_id |-> uid,
   source_kb_id |-> entry1.id,
   target_kb_id |-> entry2.id,
   link_type |-> "auto",
   link_strength |-> finalStrength(similarity, entry1.category, entry2.category),
   shared_keywords |-> sharedKeywords]

\* part_008:169 and 176  linksToInsert.length >= maxLinks
CapReached(length, maxLinks) == RatLeq(maxLinks, Rat(length, 1))

\* an inner loop that starts at the first entry for every outer index
InnerStartFirst(i) == 0

\* an inner loop that starts at the outer index
InnerStartSame(i) == i

\* part_008:141  let j = i + 1
InnerStart(i) == i + 1

ExitLoop == [exit |-> TRUE, i |-> 0, j |-> 0]

\* the first pair of the outer iterations from index i on: an outer
\* iteration whose inner loop is empty only runs the check of part_008:176
RECURSIVE OuterFrom(_, _, _)
OuterFrom(i, n, capped) ==
  IF i >= n THEN ExitLoop
  ELSE IF InnerStart(i) < n THEN [exit |-> FALSE, i |-> i, j |-> InnerStart(i)]
  ELSE IF capped THEN ExitLoop
  ELSE OuterFrom(i + 1, n, capped)

\* loop control without the test after the inner loop: the break at the
\* cap leaves the inner loop only
NextPairInnerBreakOnly(i, j, n, emitted, capped) ==
  IF emitted /\ capped THEN OuterFrom(i + 1, n, FALSE)
  ELSE IF j + 1 < n THEN [exit |-> FALSE, i |-> i, j |-> j + 1]
  ELSE OuterFrom(i + 1, n, FALSE)

\* the pair after the body ran on (i, j): the break of part_008:171 (taken
\* only inside the gate), the inner j++, the break of part_008:177, the
\* outer i++
NextPair(i, j, n, emitted, capped) ==
  IF emitted /\ capped THEN ExitLoop
  ELSE IF j + 1 < n THEN [exit |-> FALSE, i |-> i, j |-> j + 1]
  ELSE IF capped THEN ExitLoop
  ELSE OuterFrom(i + 1, n, capped)

\* a counter that advances only when the inner loop moves to another row
ComparedRows(comparisons, j) ==
  IF j = 1 THEN comparisons + 1 ELSE comparisons

\* part_008:142  comparisons++, the first statement of the inner body at
\* index j
Compared(comparisons, j) == comparisons + 1

\* a handler that sees no fatal error
NeverRelationMissing(outcome) == FALSE

\* a handler for which every error is fatal
AnyErrorIsFatal(outcome) == outcome # "ok"

\* part_008:202  the message names a relation that does not exist
IsRelationMissing(outcome) == outcome = "relation_missing"

\* part_008:188  i += batchSize
NextBatchStart(i) == i + batchSize

\* a count that ignores the outcome
CountAlways(count, batch, outcome) == count + Len(batch)

\* part_008:213-215
CountInserted(count, batch, outcome) ==
  IF outcome = "ok" THEN count + Len(batch) ELSE count

\* linksToInsert.slice(i, i + batchSize)
BatchAt(linksToInsert, i) ==
  SubSeq(linksToInsert, i + 1,
         IF i + batchSize < Len(linksToInsert)
         THEN i + batchSize ELSE Len(linksToInsert))

(***************************************************************************)
(* The databases and the requests that are explored.                       *)
(***************************************************************************)
wAlpha == <<"a","l","p","h","a">>

wGamma == <<"g","a","m","m","a">>

wDelta == <<"d","e","l","t","a">>

wOmega == <<"o","m","e","g","a">>

wSigma == <<"s","i","g","m","a">>

wKappa == <<"k","a","p","p","a">>

Sp == <<" ">>

\* "Alpha, gamma delta."
TextAGD ==
  <<"A","l","p","h","a",",">> \o Sp \o wGamma \o Sp \o wDelta \o <<".">>

\* "alpha  gamma"
TextAG == wAlpha \o Sp \o Sp \o wGamma

\* "these omega-sigma kappa"
TextOSK ==
  <<"t","h","e","s","e">> \o Sp \o wOmega \o <<"-">> \o wSigma \o Sp \o wKappa

\* keywords alpha, gamma, delta
SummaryAGD == JSummary(JArr(<<JStr(TextAGD)>>), JUndefined)

\* keywords alpha, gamma, omega, sigma, kappa
SummaryAGOSK == JSummary(JArr(<<JStr(TextAG)>>), JArr(<<JStr(TextOSK)>>))

\* keyword alpha
SummaryA == JSummary(JArr(<<JStr(wAlpha)>>), JArr(<<>>))

\* keywords alpha, gamma
SummaryAG == JSummary(JUndefined, JArr(<<JStr(TextAG)>>))

\* a key point that is no string: the extraction throws and yields nothing
SummaryBad == JSummary(JArr(<<JStr(TextAGD), JNum>>), JUndefined)

\* what an entry of owner "u1" of a small database can be
Templates ==
  { [summary_json |-> SummaryAGD, category |-> "Science"],
    [summary_json |-> SummaryAGD, category |-> "Technology"],
    [summary_json |-> SummaryAGOSK, category |-> "Science"],
    [summary_json |-> SummaryA, category |-> "Science"] }

\* the entries of owner "u2", the same in every database
OtherOwnerEntry(k) ==
  [id |-> 100 + k, user_id |-> "u2", category |-> "Science",
   summary_json |-> IF k = 2 THEN JNull
                    ELSE IF k = 3 THEN SummaryBad ELSE SummaryAGD]

\* the table with the entries ts of owner "u1" between those of owner "u2"
MakeKnowledgebase(ts) ==
  <<OtherOwnerEntry(1), OtherOwnerEntry(2)>>
  \o [k \in 1..Len(ts) |->
        [id |-> k, user_id |-> "u1", category |-> ts[k].category,
         summary_json |-> ts[k].summary_json]]
  \o <<OtherOwnerEntry(3), OtherOwnerEntry(4)>>

KnowledgebasesOf(templates) ==
  {MakeKnowledgebase(ts) :
     ts \in UNION {[1..n -> templates] : n \in 0..MaxEntries}}

SmallKnowledgebases == KnowledgebasesOf(Templates)

\* the small databases whose entries of "u1" are all of category Science
\* and have two keywords or more
ScienceKnowledgebases ==
  KnowledgebasesOf({t \in Templates :
                      /\ t.category = "Science"
                      /\ Len(extractKeywords(t.summary_json)) >= 2})

\* n entries of "u1" of which every pair is linked
UniformKnowledgebase(n) ==
  MakeKnowledgebase([k \in 1..n |->
                       [summary_json |-> SummaryAG, category |-> "Science"]])

\* more candidates than two batches hold
BigKnowledgebase == UniformKnowledgebase(BigEntries)

\* more candidates than one batch holds
MidKnowledgebase == UniformKnowledgebase(MidEntries)

\* "delta gamma alpha"
TextDGA == wDelta \o Sp \o wGamma \o Sp \o wAlpha

\* " Between  THOSE tiny word_9 Omega7 alpha "
TextStop ==
  Sp \o <<"B","e","t","w","e","e","n">> \o Sp \o Sp
     \o <<"T","H","O","S","E">> \o Sp \o <<"t","i","n","y">> \o Sp
     \o <<"w","o","r","d","_","9">> \o Sp \o <<"O","m","e","g","a","7">>
     \o Sp \o wAlpha \o Sp

\* the k-th of the words "worda", "wordb", ...
ManyWord(k) == <<"w","o","r","d">> \o <<LowerChars[k]>>

\* "worda wordb ... " : the words from the a-th to the b-th
TextMany(a, b) == Flatten([k \in 1..(b - a + 1) |-> ManyWord(a + k - 1) \o Sp])

\* keywords delta, gamma, alpha
SummaryDGA == JSummary(JArr(<<JStr(TextDGA)>>), JArr(<<>>))

\* more than 15 distinct long words
SummaryMany ==
  JSummary(JArr(<<JStr(TextMany(1, 6)), JStr(TextMany(7, 12))>>),
           JArr(<<JStr(TextMany(13, ManyWords)), JStr(TextAGD)>>))

\* repeated words, common words, short words, upper case, digits, "_"
SummaryDup ==
  JSummary(JArr(<<JStr(TextAGD), JStr(TextAG)>>),
           JArr(<<JStr(TextStop), JStr(TextAGD)>>))

\* repeated words and a common word in the key points, then twelve more
\* distinct long words in the main ideas
SummaryMix ==
  JSummary(JArr(<<JStr(TextAGD), JStr(TextAG), JStr(TextOSK)>>),
           JArr(<<JStr(TextMany(1, 6)), JStr(TextMany(7, 12))>>))

\* key_points a string and main_ideas a number: neither is an array
SummaryNotArrays == JSummary(JStr(TextAGD), JNum)

\* a main idea that is null, after key points that are strings
SummaryBadIdea == JSummary(JArr(<<JStr(TextAG)>>), JArr(<<JNull>>))

\* an empty key point
SummaryEmpty == JSummary(JArr(<<JStr(<<>>)>>), JArr(<<>>))

\* the summaries of the extraction study: well formed and malformed ones
RichSummaries ==
  { SummaryAGD, SummaryDGA, SummaryAGOSK, SummaryMany, SummaryDup,
    SummaryMix, JNull, JNum, JStr(TextAG), SummaryBad, SummaryNotArrays,
    SummaryBadIdea, SummaryEmpty }

\* owner "u1" has an entry x, an entry y and a second entry like x
RichKnowledgebases ==
  { MakeKnowledgebase(<<[summary_json |-> x, category |-> "Science"],
                        [summary_json |-> y, category |-> "Science"],
                        [summary_json |-> x, category |-> "Science"]>>) :
      x \in RichSummaries, y \in RichSummaries }

\* the authorization header: none, a token the auth service rejects, or the
\* token of an owner
AuthHeaders == {"none", "invalid"} \cup Owners

\* the JSON body of the request
Bodies ==
  [json : {"object"},
   minSimilarity : {Absent, Rat(0, 1), Rat(2, 5)},
   maxLinks : {Absent, Rat(0, 1), Rat(1, 1), Rat(2, 1)}]

\* the body that is the JSON text null: request.json() resolves to null
NullBody == [json |-> "null", minSimilarity |-> Absent, maxLinks |-> Absent]

\* what the store answers to an upsert
StoreOutcomes == {"ok", "error", "relation_missing"}

\* what the store answers to the select: the rows, no data, or an error
SelectAnswers == {"rows", "null", "error"}

(***************************************************************************)
(* The handler POST of generate-links.                                     *)
(***************************************************************************)
NoResponse ==
  [status |-> 0, kind |-> "none", fields |-> {}, linksCreated |-> 0,
   totalEntries |-> 0, comparisons |-> 0]

IdleRun ==
  [pc |-> "idle", authHeader |-> "none",
   body |-> [json |-> "object", minSimilarity |-> Absent,
            maxLinks |-> Absent],
   user |-> "none", minSimilarity |-> Zero, maxLinks |-> Zero,
   entries |-> <<>>, linksToInsert |-> <<>>, comparisons |-> 0,
   i |-> 0, j |-> 0, batchStart |-> 0, insertedCount |-> 0,
   fetched |-> "none",       \* history: what the select answered
   sims |-> <<>>,            \* history: the results of calculateSimilarity
   attempts |-> <<>>,        \* history: the upserts that were answered
   response |-> NoResponse,
   linksAfter |-> {}]        \* history: the table when the run answered

\* part_008:76 and 98
Unauthorized ==
  [status |-> 401, kind |-> "unauthorized", fields |-> {"error"},
   linksCreated |-> 0, totalEntries |-> 0, comparisons |-> 0]

\* part_008:121-125
NoEntriesFound ==
  [status |-> 200, kind |-> "no_entries",
   fields |-> {"success", "linksCreated", "message"},
   linksCreated |-> 0, totalEntries |-> 0, comparisons |-> 0]

\* part_008:219-225
Success(insertedCount, totalEntries, comparisons) ==
  [status |-> 200, kind |-> "success",
   fields |-> {"success", "linksCreated", "totalEntries", "comparisons",
               "message"},
   linksCreated |-> insertedCount, totalEntries |-> totalEntries,
   comparisons |-> comparisons]

\* part_008:203-210
TableNotFound ==
  [status |-> 500, kind |-> "table_missing",
   fields |-> {"error", "message", "details"},
   linksCreated |-> 0, totalEntries |-> 0, comparisons |-> 0]

\* part_008:228-234
FailedToGenerate ==
  [status |-> 500, kind |-> "failed", fields |-> {"error", "details"},
   linksCreated |-> 0, totalEntries |-> 0, comparisons |-> 0]

\* a handler that takes every answer of getUser as a user
NeverUnauthorized(user) == FALSE

\* part_008:97  authError || !user
IsUnauthorized(user) == user = "none"

\* supabase.auth.getUser(token)
TokenUser(token) == IF token \in Owners THEN token ELSE "none"

\* the state of a run that returns resp while the table is table
Respond(run, resp, table) ==
  [run EXCEPT !.pc = "done", !.response = resp, !.linksAfter = table]

\* the run after the pair loop: the response when there is nothing to
\* insert, else the first upsert is issued
AfterLoop(run, table) ==
  IF Len(run.linksToInsert) > 0
  THEN [run EXCEPT !.pc = "upsert", !.batchStart = 0]
  ELSE Respond(run, Success(0, Len(run.entries), run.comparisons), table)

\* part_008:103  body.minSimilarity: reading a property of null throws a
\* TypeError, reading one of an object does not
PropertyReadThrows(body) == body.json = "null"

\* a handler that goes on after an error of the select
NeverThrows(entriesError) == FALSE

\* part_008:115-118  if (entriesError) throw entriesError
Throws(entriesError) == entriesError

\* a handler that takes every answer of the select as a list of entries
NeverNoEntries(isNull, entries) == FALSE

\* part_008:120  !entries || entries.length === 0
HasNoEntries(isNull, entries) == isNull \/ Len(entries) = 0

\* the event loop runs a handler from one await to the next: no step of a
\* request happens while another request is inside its pair loop
Free(r) == \A q \in RunIds \ {r} : runs[q].pc # "loop"

\* part_008:74-77: a request arrives; without a header it is answered at once
Start(r) ==
  /\ runs[r].pc = "idle"
  /\ Free(r)
  /\ r <= env.arrivals
  /\ \A q \in RunIds : q < r => runs[q].pc # "idle"
  /\ \A q \in RunIds \ {r} : env.overlap \/ runs[q].pc \in {"idle", "done"}
  /\ \E request \in env.requests :
       LET run == [runs[r] EXCEPT !.authHeader = request.authHeader,
                                  !.body = request.body]
       IN runs' = [runs EXCEPT ![r] =
                     IF request.authHeader = "none"
                     THEN Respond(run, Unauthorized, links)
                     ELSE [run EXCEPT !.pc = "getUser"]]
  /\ UNCHANGED <<knowledgebase, links, nextLinkId, env, lastWrite, limiterVars>>

\* part_008:96-113: getUser resolves; the body is parsed, the options get
\* their defaults and the select is issued; a body that is null makes the
\* read of its property throw into the catch of part_008:226
GetUser(r) ==
  /\ runs[r].pc = "getUser"
  /\ Free(r)
  /\ LET run == runs[r]
         user == TokenUser(run.authHeader)
     IN runs' = [runs EXCEPT ![r] =
                   IF IsUnauthorized(user)
                   THEN Respond(run, Unauthorized, links)
                   ELSE IF PropertyReadThrows(run.body)
                   THEN Respond([run EXCEPT !.user = user],
                                FailedToGenerate, links)
                   ELSE [run EXCEPT
                           !.pc = "fetch",
                           !.user = user,
                           !.minSimilarity =
                              OrDefault(run.body.minSimilarity, DefaultMinSimilarity),
                           !.maxLinks =
                              OrDefault(run.body.maxLinks, Rat(DefaultMaxLinks, 1))]]
  /\ UNCHANGED <<knowledgebase, links, nextLinkId, env, lastWrite, limiterVars>>

\* part_008:115-137: the select resolves; on an error the handler throws
\* into its catch, without entries it answers, else it extracts the
\* keywords and enters the pair loop
FetchEntries(r) ==
  /\ runs[r].pc = "fetch"
  /\ Free(r)
  /\ \E answer \in env.selects :
       LET run == [runs[r] EXCEPT !.fetched = answer]
           entriesError == answer = "error"
           entries == IF answer = "rows"
                      THEN SelectEntries(knowledgebase, run.user) ELSE <<>>
           calls == [k \in 1..Len(entries) |->
                       extractKeywordsCall(entries[k].summary_json)]
           entriesWithKeywords ==
             [k \in 1..Len(entries) |->
                [id |-> entries[k].id,
                 user_id |-> entries[k].user_id,
                 category |-> entries[k].category,
                 keywords |-> calls[k].value]]
           first == OuterFrom(0, Len(entries), CapReached(0, run.maxLinks))
           loop == [run EXCEPT !.entries = entriesWithKeywords,
                               !.linksToInsert = <<>>,
                               !.comparisons = 0]
       IN runs' = [runs EXCEPT ![r] =
                     IF Throws(entriesError)
                     THEN Respond(run, FailedToGenerate, links)
                     ELSE IF HasNoEntries(answer = "null", entries)
                     THEN Respond(run, NoEntriesFound, links)
                     ELSE IF \E k \in 1..Len(entries) : calls[k].threw
                     THEN Respond(run, FailedToGenerate, links)
                     ELSE IF first.exit
                     THEN AfterLoop(loop, links)
                     ELSE [loop EXCEPT !.pc = "loop",
                                       !.i = first.i, !.j = first.j]]
  /\ UNCHANGED <<knowledgebase, links, nextLinkId, env, lastWrite, limiterVars>>

\* part_008:142-178: one iteration of the inner loop, with the loop control
\* that follows it
ComparePair(r) ==
  /\ runs[r].pc = "loop"
  /\ LET run == runs[r]
         entry1 == run.entries[run.i + 1]
         entry2 == run.entries[run.j + 1]
         sim == calculateSimilarity(entry1.keywords, entry2.keywords)
         emitted == PassesGate(sim.similarity, sim.sharedKeywords,
                               run.minSimilarity)
         linksToInsert ==
           IF emitted
           THEN Append(run.linksToInsert,
                       LinkRow(run.user, entry1, entry2,
                               sim.sharedKeywords, sim.similarity))
           ELSE run.linksToInsert
         next == NextPair(run.i, run.j, Len(run.entries), emitted,
                          CapReached(Len(linksToInsert), run.maxLinks))
         compared == [run EXCEPT !.comparisons = Compared(@, run.j),
                                 !.sims = Append(@, [i |-> run.i, j |-> run.j,
                                                     result |-> sim]),
                                 !.linksToInsert = linksToInsert]
     IN runs' = [runs EXCEPT ![r] =
                   IF next.exit
                   THEN AfterLoop(compared, links)
                   ELSE [compared EXCEPT !.i = next.i, !.j = next.j]]
  /\ UNCHANGED <<knowledgebase, links, nextLinkId, env, lastWrite, limiterVars>>

\* part_008:188-225: the upsert of the batch at batchStart resolves
UpsertBatch(r) ==
  /\ runs[r].pc = "upsert"
  /\ Free(r)
  /\ \E answer \in env.outcomes :
       LET run == runs[r]
           batch == BatchAt(run.linksToInsert, run.batchStart)
           outcome == IF answer = "ok" /\ ~StoreAccepts(batch, run.user)
                      THEN "error" ELSE answer
           table == IF outcome = "ok"
                    THEN Upsert(links, batch, nextLinkId) ELSE links
           attempted ==
             [run EXCEPT
                !.attempts = Append(@, [start |-> run.batchStart,
                                        size |-> Len(batch),
                                        outcome |-> outcome,
                                        during |-> \E q \in RunIds \ {r} :
                                                     runs[q].pc = "upsert"]),
                !.insertedCount = IF IsRelationMissing(outcome) THEN @
                                  ELSE CountInserted(@, batch, outcome),
                !.batchStart = IF IsRelationMissing(outcome) THEN @
                               ELSE NextBatchStart(@)]
       IN /\ links' = table
          /\ nextLinkId' = nextLinkId + Cardinality(table) - Cardinality(links)
          /\ lastWrite' =
               IF outcome = "ok"
               THEN [key \in DOMAIN lastWrite \cup
                             {LinkKey(batch[k]) : k \in 1..Len(batch)} |->
                       IF \E k \in 1..Len(batch) : LinkKey(batch[k]) = key
                       THEN LET row == batch[CHOOSE k \in 1..Len(batch) :
                                               LinkKey(batch[k]) = key]
                            IN [link_strength |-> row.link_strength,
                                shared_keywords |-> row.shared_keywords]
                       ELSE lastWrite[key]]
               ELSE lastWrite
          /\ runs' = [runs EXCEPT ![r] =
                        IF IsRelationMissing(outcome)
                        THEN Respond(attempted, TableNotFound, table)
                        ELSE IF attempted.batchStart < Len(run.linksToInsert)
                        THEN attempted
                        ELSE Respond(attempted,
                                     Success(attempted.insertedCount,
                                             Len(run.entries), run.comparisons),
                                     table)]
  /\ UNCHANGED <<knowledgebase, env, limiterVars>>

(***************************************************************************)
(* Rate limiting: the cache of request timestamps, createRateLimiter, the  *)
(* API middleware and the rate limit check of the process-pdf route.       *)
(***************************************************************************)
\* middleware.ts:16  the user id of a request without a verified token
Anonymous == "anonymous"

ProcessPdf == "/api/process-pdf"

RefreshFromEmail == "/api/refresh-from-email"

\* a path that ENDPOINT_LIMITS does not list
GenerateLinks == "/api/knowledge-graph/generate-links"

LimiterUsers == Owners \cup {Anonymous}

Paths == {ProcessPdf, RefreshFromEmail, GenerateLinks}

\* the number of keys that the cache holds: max, 5000 in the source
max == 2

\* the age after which the cache drops an entry
ttl == 60 * 1000

\* the milliseconds between two readings of the clock that differ
TickMs == 30000

\* the number of times the clock advances
MaxTicks == 3

\* the number of API requests without a token
MaxArrivals == 8

\* the number of API requests of a user
UserArrivals == 6

\* the number of API requests between their middleware and their answer
MaxInFlight == 1

ENDPOINT_LIMITS ==
  ("/api/rag-search" :> [windowMs |-> 60 * 1000, maxRequests |-> 20])
  @@ ("/api/process-url" :> [windowMs |-> 60 * 1000, maxRequests |-> 10])
  @@ ("/api/generate-embeddings"
        :> [windowMs |-> 60 * 1000, maxRequests |-> 15])
  @@ ("/api/refresh-from-email"
        :> [windowMs |-> 60 * 1000, maxRequests |-> 5])
  @@ ("/api/process-pdf" :> [windowMs |-> 60 * 1000, maxRequests |-> 10])
  @@ ("default" :> [windowMs |-> 60 * 1000, maxRequests |-> 30])

\* ENDPOINT_LIMITS[endpoint] || ENDPOINT_LIMITS['default']
ConfigOf(endpoint) ==
  IF endpoint \in DOMAIN ENDPOINT_LIMITS
  THEN ENDPOINT_LIMITS[endpoint] ELSE ENDPOINT_LIMITS["default"]

\* `${userId}:${endpoint}`
CacheKey(userId, endpoint) == userId \o ":" \o endpoint

\* the position of the key in the cache, 0 when it has none
CacheIndex(cache, key) ==
  IF \E k \in 1..Len(cache) : cache[k].key = key
  THEN CHOOSE k \in 1..Len(cache) : cache[k].key = key
  ELSE 0

Without(cache, k) == SubSeq(cache, 1, k - 1) \o SubSeq(cache, k + 1, Len(cache))

\* the entry is older than the ttl of the cache
IsStale(entry, t) == t - entry.start > ttl

\* rateLimitCache.get(key) at time t: a stale entry is deleted and not
\* returned, a fresh one becomes the most recently used
CacheGet(cache, key, t) ==
  LET k == CacheIndex(cache, key)
  IN IF k = 0
     THEN [hit |-> FALSE, value |-> <<>>, cache |-> cache]
     ELSE IF IsStale(cache[k], t)
     THEN [hit |-> FALSE, value |-> <<>>, cache |-> Without(cache, k)]
     ELSE [hit |-> TRUE, value |-> cache[k].value,
           cache |-> Append(Without(cache, k), cache[k])]

\* rateLimitCache.set(key, value) at time t: the entry becomes the most
\* recently used with a new age; a new key in a full cache evicts the
\* least recently used entry
CacheSet(cache, key, value, t) ==
  LET k == CacheIndex(cache, key)
      entry == [key |-> key, value |-> value, start |-> t]
  IN IF k # 0 THEN Append(Without(cache, k), entry)
     ELSE IF Len(cache) >= max THEN Append(Tail(cache), entry)
     ELSE Append(cache, entry)

\* a window that keeps the timestamp that is exactly windowMs old
InWindowInclusive(timestamp, t, windowMs) == t - timestamp <= windowMs

\* now - timestamp < windowMs
InWindow(timestamp, t, windowMs) == t - timestamp < windowMs

\* a limiter that records every call
RecordsAlways(isLimited) == TRUE

\* if (!isLimited): the call is recorded
Records(isLimited) == ~isLimited

\* Math.max(0, maxRequests - requests.length)
Remaining(maxRequests, length) ==
  IF maxRequests - length > 0 THEN maxRequests - length ELSE 0

\* createRateLimiter(userId, endpoint) at time t on the cache: the result
\* and the cache after the call
createRateLimiter(cache, userId, endpoint, t) ==
  LET config == ConfigOf(endpoint)
      cacheKey == CacheKey(userId, endpoint)
      got == CacheGet(cache, cacheKey, t)
      requests == SelectSeq(got.value,
                            LAMBDA ts : InWindow(ts, t, config.windowMs))
      isLimited == Len(requests) >= config.maxRequests
  IN [isLimited |-> isLimited,
      remaining |-> Remaining(config.maxRequests, Len(requests)),
      limit |-> config.maxRequests,
      resetTime |-> IF Len(requests) > 0
                    THEN requests[1] + config.windowMs
                    ELSE t + config.windowMs,
      cache |-> IF Records(isLimited)
                THEN CacheSet(got.cache, cacheKey, Append(requests, t), t)
                ELSE got.cache]

NoCall ==
  [seq |-> 0, userId |-> Anonymous, endpoint |-> "", at |-> 0,
   isLimited |-> FALSE, remaining |-> 0, limit |-> 0, resetTime |-> 0]

NoRequest ==
  [stage |-> "free", userId |-> Anonymous, path |-> "", at |-> 0,
   isLimited |-> FALSE, nth |-> 0]

NoApiResponse ==
  [userId |-> Anonymous, path |-> "", status |-> 0, by |-> "none",
   quotaOk |-> TRUE, nth |-> 0]

Slots == 1..MaxInFlight

\* the history of a call: the result (seq alternates between 1 and 2 from
\* call to call), and its time when it was not limited
RecordCall(call, userId, endpoint) ==
  /\ lastCall' = [seq |-> IF lastCall.seq = 1 THEN 2 ELSE 1,
                  userId |-> userId,
                  endpoint |-> endpoint, at |-> now,
                  isLimited |-> call.isLimited,
                  remaining |-> call.remaining, limit |-> call.limit,
                  resetTime |-> call.resetTime]
  /\ accepted' = IF call.isLimited THEN accepted
                 ELSE [accepted EXCEPT ![<<userId, endpoint>>] = Append(@, now)]

\* the answer to the request req
Answer(req, status, by, quotaOk) ==
  [userId |-> req.userId, path |-> req.path, status |-> status, by |-> by,
   quotaOk |-> quotaOk, nth |-> req.nth]

\* middleware.ts:13-44: a request for an API path arrives; its token is
\* verified, createRateLimiter is called; the request of a user waits for
\* the quota check, the anonymous one is answered at once (429, or it is
\* passed on to the route, where process-pdf answers 401)
Middleware(userId, path) ==
  /\ userId \in traffic.users
  /\ path \in traffic.paths
  /\ arrived < traffic.arrivals
  /\ \E s \in Slots :
       /\ inflight[s].stage = "free"
       /\ \A q \in Slots : q < s => inflight[q].stage # "free"
       /\ LET call == createRateLimiter(rateLimitCache, userId, path, now)
              \* history: the request is the nth of its user for
              \* process-pdf within the window that ends now
              req == [stage |-> "quota", userId |-> userId, path |-> path,
                      at |-> now, isLimited |-> call.isLimited,
                      nth |-> IF path = ProcessPdf
                              THEN Len(pdfArrived[userId]) + 1 ELSE 0]
          IN /\ rateLimitCache' = call.cache
             /\ RecordCall(call, userId, path)
             /\ IF userId # Anonymous
                THEN /\ inflight' = [inflight EXCEPT ![s] = req]
                     /\ UNCHANGED lastResponse
                ELSE /\ UNCHANGED inflight
                     /\ lastResponse' =
                          Answer(req,
                                 IF call.isLimited THEN 429
                                 ELSE IF path = ProcessPdf THEN 401 ELSE 0,
                                 IF call.isLimited \/ path # ProcessPdf
                                 THEN "middleware" ELSE "route",
                                 TRUE)
  /\ arrived' = arrived + 1
  /\ pdfArrived' = IF path = ProcessPdf
                   THEN [pdfArrived EXCEPT ![userId] = Append(@, now)]
                   ELSE pdfArrived
  /\ UNCHANGED <<now, traffic>>
  /\ UNCHANGED <<knowledgebase, links, nextLinkId, env, runs, lastWrite>>

\* middleware.ts:42-70: checkUserQuota resolves; the request is answered
\* 429 or passed on to its route; the process-pdf route then waits for
\* getUser (part_009:68-82)
QuotaAnswered(s) ==
  /\ inflight[s].stage = "quota"
  /\ \E hasQuota \in traffic.quota :
       LET req == inflight[s]
           quotaExceeded == ~hasQuota
       IN IF req.isLimited \/ quotaExceeded
          THEN /\ inflight' = [inflight EXCEPT ![s] = NoRequest]
               /\ lastResponse' = Answer(req, 429, "middleware", hasQuota)
          ELSE IF req.path = ProcessPdf
          THEN /\ inflight' = [inflight EXCEPT ![s].stage = "route"]
               /\ UNCHANGED lastResponse
          ELSE /\ inflight' = [inflight EXCEPT ![s] = NoRequest]
               /\ lastResponse' = Answer(req, 0, "middleware", hasQuota)
  /\ UNCHANGED <<rateLimitCache, now, traffic, arrived, accepted, lastCall,
                 pdfArrived>>
  /\ UNCHANGED <<knowledgebase, links, nextLinkId, env, runs, lastWrite>>

\* part_009:84-88: getUser resolved; the route calls createRateLimiter and
\* answers 429 or goes on to process the file
RouteRateLimit(s) ==
  /\ inflight[s].stage = "route"
  /\ LET req == inflight[s]
         call == createRateLimiter(rateLimitCache, req.userId, ProcessPdf, now)
     IN /\ rateLimitCache' = call.cache
        /\ RecordCall(call, req.userId, ProcessPdf)
        /\ lastResponse' = Answer(req, IF call.isLimited THEN 429 ELSE 0,
                                  "route", TRUE)
  /\ inflight' = [inflight EXCEPT ![s] = NoRequest]
  /\ UNCHANGED <<now, traffic, arrived, pdfArrived>>
  /\ UNCHANGED <<knowledgebase, links, nextLinkId, env, runs, lastWrite>>

\* the clock advances; the histories keep the times within the last window
Tick ==
  /\ now + TickMs <= MaxTicks * TickMs
  /\ now' = now + TickMs
  /\ accepted' =
       [key \in DOMAIN accepted |->
          SelectSeq(accepted[key],
                    LAMBDA ts : now' - ts < ConfigOf(key[2]).windowMs)]
  /\ pdfArrived' =
       [u \in DOMAIN pdfArrived |->
          SelectSeq(pdfArrived[u],
                    LAMBDA ts : now' - ts < ConfigOf(ProcessPdf).windowMs)]
  /\ UNCHANGED <<rateLimitCache, traffic, inflight, arrived, lastCall,
                 lastResponse>>
  /\ UNCHANGED <<knowledgebase, links, nextLinkId, env, runs, lastWrite>>

NextRateLimit ==
  \/ \E userId \in LimiterUsers : \E path \in Paths : Middleware(userId, path)
  \/ \E s \in Slots : QuotaAnswered(s)
  \/ \E s \in Slots : RouteRateLimit(s)
  \/ Tick

NoTraffic == [users |-> {}, paths |-> {}, quota |-> {}, arrivals |-> 0]

InitLimiter ==
  /\ rateLimitCache = <<>>
  /\ now = 0
  /\ inflight = [s \in Slots |-> NoRequest]
  /\ arrived = 0
  /\ accepted = [key \in LimiterUsers \X Paths |-> <<>>]
  /\ lastCall = NoCall
  /\ pdfArrived = [u \in LimiterUsers |-> <<>>]
  /\ lastResponse = NoApiResponse

Next ==
  \E r \in RunIds :
    \/ Start(r)
    \/ GetUser(r)
    \/ FetchEntries(r)
    \/ ComparePair(r)
    \/ UpsertBatch(r)

InitStores ==
  /\ links = {}
  /\ nextLinkId = 1
  /\ runs = [r \in RunIds |-> IdleRun]
  /\ lastWrite = <<>>
  /\ traffic = NoTraffic
  /\ InitLimiter

AllRequests == [authHeader : AuthHeaders, body : Bodies \cup {NullBody}]

OwnerRequests == [authHeader : Owners, body : Bodies]

DefaultBody ==
  [json |-> "object", minSimilarity |-> Absent, maxLinks |-> Absent]

\* requests of both owners without options, and one with a threshold and a
\* cap
PlainRequests ==
  { [authHeader |-> "u1", body |-> DefaultBody],
    [authHeader |-> "u2", body |-> DefaultBody],
    [authHeader |-> "u1",
     body |-> [json |-> "object", minSimilarity |-> Rat(2, 5),
               maxLinks |-> Rat(2, 1)]] }

\* one request, of any kind, on any database, with a store that may fail
Init ==
  /\ knowledgebase \in SmallKnowledgebases \cup {BigKnowledgebase}
  /\ env = [arrivals |-> 1, overlap |-> FALSE, requests |-> AllRequests,
            selects |-> SelectAnswers, outcomes |-> StoreOutcomes]
  /\ InitStores

Spec == Init /\ [][Next]_vars

\* the same request twice, the second after the first was answered
InitSequential ==
  /\ knowledgebase \in SmallKnowledgebases \cup {MidKnowledgebase}
  /\ \E request \in OwnerRequests :
       env = [arrivals |-> 2, overlap |-> FALSE, requests |-> {request},
              selects |-> {"rows", "error"},
              outcomes |-> IF knowledgebase = MidKnowledgebase
                           THEN {"ok"} ELSE StoreOutcomes]
  /\ InitStores

SpecSequential == InitSequential /\ [][Next]_vars

\* two requests whose handling overlaps at the await points
InitOverlap ==
  /\ knowledgebase \in ScienceKnowledgebases \cup {MidKnowledgebase}
  /\ env = [arrivals |-> 2, overlap |-> TRUE,
            selects |-> {"rows", "error"},
            requests |-> IF knowledgebase = MidKnowledgebase
                         THEN {[authHeader |-> "u1", body |-> DefaultBody]}
                         ELSE PlainRequests,
            outcomes |-> IF knowledgebase = MidKnowledgebase
                         THEN {"ok", "error"} ELSE StoreOutcomes]
  /\ InitStores

SpecOverlap == InitOverlap /\ [][Next]_vars

\* one request of owner "u1" on a database of well formed and malformed
\* summaries
InitExtract ==
  /\ knowledgebase \in RichKnowledgebases
  /\ env = [arrivals |-> 1, overlap |-> FALSE,
            requests |-> {[authHeader |-> "u1", body |-> DefaultBody]},
            selects |-> {"rows"}, outcomes |-> {"ok"}]
  /\ InitStores

SpecExtract == InitExtract /\ [][Next]_vars

\* who sends how many API requests for which paths, and what
\* checkUserQuota answers: a user with quota on process-pdf, a user on
\* another path whose quota may be used up, and requests without a token
\* on more paths than the cache holds keys
TrafficKinds ==
  { [users |-> {"u1"}, paths |-> {ProcessPdf}, quota |-> {TRUE},
     arrivals |-> UserArrivals],
    [users |-> {"u2"}, paths |-> {RefreshFromEmail}, quota |-> {TRUE, FALSE},
     arrivals |-> UserArrivals],
    [users |-> {Anonymous},
     paths |-> {RefreshFromEmail, GenerateLinks, ProcessPdf},
     quota |-> {TRUE}, arrivals |-> MaxArrivals] }

\* API requests on the middleware and the process-pdf route, no
\* generate-links handler running
InitRateLimit ==
  /\ knowledgebase = <<>>
  /\ env = [arrivals |-> 0, overlap |-> FALSE, requests |-> {},
            selects |-> {}, outcomes |-> {}]
  /\ links = {}
  /\ nextLinkId = 1
  /\ runs = [r \in RunIds |-> IdleRun]
  /\ lastWrite = <<>>
  /\ traffic \in TrafficKinds
  /\ InitLimiter

SpecRateLimit == InitRateLimit /\ [][NextRateLimit]_vars

(***************************************************************************)
(* Definitions used to state the properties.                               *)
(***************************************************************************)
\* the runs that have fetched their entries
Fetched == {r \in RunIds : runs[r].entries # <<>>}

\* the candidates of run r, as a set of positions
Candidates(r) == 1..Len(runs[r].linksToInsert)

\* the position in the fetched list of the entry with this id
IndexOf(r, id) == CHOOSE k \in 1..Len(runs[r].entries) : runs[r].entries[k].id = id

\* the Jaccard coefficient of two keyword lists, from set operations
Jaccard(keywords1, keywords2) ==
  LET both == Range(keywords1) \cap Range(keywords2)
      all == Range(keywords1) \cup Range(keywords2)
  IN IF all = {} THEN Zero ELSE Rat(Cardinality(both), Cardinality(all))

SharedSet(keywords1, keywords2) == Range(keywords1) \cap Range(keywords2)

\* every pair of the fetched list was compared
AllCompared(r) ==
  LET n == Len(runs[r].entries)
  IN runs[r].pc \in {"upsert", "done"} /\ 2 * runs[r].comparisons = n * (n - 1)

RECURSIVE SumOk(_)
SumOk(attempts) ==
  IF attempts = <<>> THEN 0
  ELSE (IF Head(attempts).outcome = "ok" THEN Head(attempts).size ELSE 0)
       + SumOk(Tail(attempts))

(***************************************************************************)
(* C1  Threshold gate: every candidate comes from a pair of fetched        *)
(* entries whose Jaccard similarity, before any category bonus, is at      *)
(* least the effective minSimilarity and which shares at least 2 keywords. *)
(***************************************************************************)
ThresholdGate ==
  \A r \in Fetched : \A k \in Candidates(r) :
    LET row == runs[r].linksToInsert[k]
        e1 == runs[r].entries[IndexOf(r, row.source_kb_id)]
        e2 == runs[r].entries[IndexOf(r, row.target_kb_id)]
    IN /\ RatLeq(runs[r].minSimilarity, Jaccard(e1.keywords, e2.keywords))
       /\ Cardinality(SharedSet(e1.keywords, e2.keywords)) >= 2

\* a run compared every pair and emitted nothing for a same-category pair
\* that shares 2 keywords and that only the bonus would lift to the threshold
ThresholdGateWitness ==
  \E r \in Fetched :
    /\ AllCompared(r)
    /\ \E a, b \in 1..Len(runs[r].entries) :
         LET e1 == runs[r].entries[a]
             e2 == runs[r].entries[b]
             sim == Jaccard(e1.keywords, e2.keywords)
         IN /\ a < b
            /\ e1.category = e2.category
            /\ Cardinality(SharedSet(e1.keywords, e2.keywords)) >= 2
            /\ RatLess(sim, runs[r].minSimilarity)
            /\ RatLeq(runs[r].minSimilarity, RatAdd(sim, Rat(1, 10)))
            /\ \A k \in Candidates(r) :
                 ~ /\ runs[r].linksToInsert[k].source_kb_id = e1.id
                   /\ runs[r].linksToInsert[k].target_kb_id = e2.id

(***************************************************************************)
(* C2  Clamping: every candidate has 0 <= link_strength <= 1, and a        *)
(* candidate of two same-category entries with equal keyword sets has      *)
(* exactly 1; so every candidate passes the valid_strength check.          *)
(***************************************************************************)
Clamping ==
  \A r \in Fetched : \A k \in Candidates(r) :
    LET row == runs[r].linksToInsert[k]
        e1 == runs[r].entries[IndexOf(r, row.source_kb_id)]
        e2 == runs[r].entries[IndexOf(r, row.target_kb_id)]
    IN /\ RatLeq(Zero, row.link_strength)
       /\ RatLeq(row.link_strength, One)
       /\ valid_strength(row)
       /\ (e1.category = e2.category /\ Range(e1.keywords) = Range(e2.keywords))
            => row.link_strength = One

\* a candidate whose similarity plus bonus exceeds 1
ClampingWitness ==
  \E r \in Fetched : \E k \in Candidates(r) :
    LET row == runs[r].linksToInsert[k]
        e1 == runs[r].entries[IndexOf(r, row.source_kb_id)]
        e2 == runs[r].entries[IndexOf(r, row.target_kb_id)]
    IN /\ e1.category = e2.category
       /\ RatLess(One, RatAdd(Jaccard(e1.keywords, e2.keywords), Rat(1, 10)))
       /\ row.link_strength = One

(***************************************************************************)
(* C3  Cap respected: the candidate list never has more links than the     *)
(* maxLinks of the request body, or than 1000 when the body has none.      *)
(***************************************************************************)
CapRespected ==
  \A r \in RunIds :
    runs[r].pc \in {"loop", "upsert", "done"} =>
      RatLeq(Rat(Len(runs[r].linksToInsert), 1),
             IF runs[r].body.maxLinks = Absent
             THEN Rat(1000, 1) ELSE runs[r].body.maxLinks)

(***************************************************************************)
(* C4  Continue on partial failure: the attempted batches are the          *)
(* consecutive slices of 100 candidates, in order, each attempted once;    *)
(* after a batch that failed with a non-fatal error the next batch is      *)
(* still due or attempted, and a run that ends without a fatal error has   *)
(* attempted every candidate in exactly one batch.                         *)
(***************************************************************************)
ContinueOnPartialFailure ==
  \A r \in RunIds :
    LET run == runs[r]
        total == Len(run.linksToInsert)
    IN /\ \A k \in 1..Len(run.attempts) :
            /\ run.attempts[k].start = (k - 1) * 100
            /\ run.attempts[k].size =
                 (IF k * 100 < total THEN 100 ELSE total - (k - 1) * 100)
            /\ run.attempts[k].size > 0
            /\ (run.attempts[k].outcome = "error" /\ k * 100 < total)
                 => (Len(run.attempts) > k
                     \/ (run.pc = "upsert" /\ run.batchStart = k * 100))
       /\ (run.pc = "done" /\ run.response.kind = "success")
            => \A c \in 1..total :
                 Cardinality({k \in 1..Len(run.attempts) :
                                /\ run.attempts[k].start < c
                                /\ c <= run.attempts[k].start
                                          + run.attempts[k].size}) = 1

\* a run whose first batch failed and whose later batches were attempted
ContinueOnPartialFailureWitness ==
  \E r \in RunIds :
    /\ runs[r].pc = "done"
    /\ Len(runs[r].attempts) >= 3
    /\ runs[r].attempts[1].outcome = "error"
    /\ runs[r].attempts[2].outcome = "error"
    /\ runs[r].attempts[3].outcome = "ok"

(***************************************************************************)
(* C5  Partial success count: a run that attempted its batches without a   *)
(* fatal error answers success (200) with linksCreated the sum of the      *)
(* sizes of the batches that succeeded, which is the number of rows it     *)
(* wrote; linksCreated is less than the number of candidates exactly when  *)
(* a batch failed.                                                         *)
(***************************************************************************)
PartialSuccessCount ==
  \A r \in RunIds :
    LET run == runs[r]
    IN (/\ run.pc = "done"
        /\ Len(run.attempts) > 0
        /\ \A k \in 1..Len(run.attempts) :
             run.attempts[k].outcome # "relation_missing")
       => /\ run.response.kind = "success"
          /\ run.response.status = 200
          /\ "success" \in run.response.fields
          /\ run.response.linksCreated = SumOk(run.attempts)
          /\ run.response.linksCreated = Cardinality(run.linksAfter)
          /\ (run.response.linksCreated < Len(run.linksToInsert))
               <=> (\E k \in 1..Len(run.attempts) :
                      run.attempts[k].outcome = "error")

\* a run that wrote some batches and failed on others
PartialSuccessCountWitness ==
  \E r \in RunIds :
    /\ runs[r].pc = "done"
    /\ runs[r].response.kind = "success"
    /\ \E k \in 1..Len(runs[r].attempts) : runs[r].attempts[k].outcome = "error"
    /\ \E k \in 1..Len(runs[r].attempts) : runs[r].attempts[k].outcome = "ok"
    /\ runs[r].response.linksCreated > 0

(***************************************************************************)
(* C6  Fatal schema-missing error: an upsert answered with "relation ...   *)
(* does not exist" is the last one the run attempts; the run answers 500   *)
(* 'Knowledge graph table not found' with the migration hint, which is     *)
(* neither the generic failure nor the success result; no batch is         *)
(* attempted twice.                                                        *)
(***************************************************************************)
FatalSchemaMissing ==
  \A r \in RunIds :
    LET run == runs[r]
    IN /\ \A k \in 1..Len(run.attempts) :
            run.attempts[k].outcome = "relation_missing"
              => /\ k = Len(run.attempts)
                 /\ run.pc = "done"
                 /\ run.response = TableNotFound
                 /\ run.response.status = 500
                 /\ "message" \in run.response.fields
                 /\ run.response.kind \notin {"failed", "success"}
                 /\ run.response # FailedToGenerate
       /\ \A k, m \in 1..Len(run.attempts) :
            run.attempts[k].start = run.attempts[m].start => k = m

\* a fatal error on a batch after which candidates remain
FatalSchemaMissingWitness ==
  \E r \in RunIds :
    /\ runs[r].pc = "done"
    /\ Len(runs[r].attempts) = 2
    /\ runs[r].attempts[2].outcome = "relation_missing"
    /\ Len(runs[r].linksToInsert) > 2 * 100

(***************************************************************************)
(* C7  Idempotent persistence: when the same owner runs the generator      *)
(* twice in sequence on the same entries with the same parameters and      *)
(* every batch succeeds, the table after the second run is the table       *)
(* after the first: as many rows, one row per key, the same values.        *)
(***************************************************************************)
AllBatchesOk(r) ==
  /\ runs[r].pc = "done"
  /\ runs[r].response.kind = "success"
  /\ \A k \in 1..Len(runs[r].attempts) : runs[r].attempts[k].outcome = "ok"

IdempotentPersistence ==
  (/\ AllBatchesOk(1)
   /\ AllBatchesOk(2)
   /\ runs[1].user = runs[2].user
   /\ runs[1].body = runs[2].body
   /\ runs[1].entries = runs[2].entries)
  => /\ runs[2].linksAfter = runs[1].linksAfter
     /\ Cardinality(runs[2].linksAfter) = Cardinality(runs[1].linksAfter)
     /\ unique_link(runs[2].linksAfter)
     /\ links = runs[1].linksAfter

\* two runs that each wrote all their candidates
IdempotentPersistenceWitness ==
  /\ AllBatchesOk(1)
  /\ AllBatchesOk(2)
  /\ runs[1].user = runs[2].user
  /\ runs[1].body = runs[2].body
  /\ runs[1].entries = runs[2].entries
  /\ Len(runs[1].attempts) > 0
  /\ Len(runs[2].attempts) > 0
  /\ runs[2].response.linksCreated = Cardinality(links)

(***************************************************************************)
(* C8  Concurrent runs: whatever the interleaving of the upserts of two    *)
(* overlapping runs, the table never holds two rows with one (owner,       *)
(* source, target) key, and when both runs have finished every key that    *)
(* was written holds the values of the last upsert that touched it.        *)
(***************************************************************************)
ConcurrentRuns ==
  /\ unique_link(links)
  /\ (\A r \in RunIds : runs[r].pc = "done")
       => \A key \in DOMAIN lastWrite :
            \E row \in links :
              /\ LinkKey(row) = key
              /\ row.link_strength = lastWrite[key].link_strength
              /\ row.shared_keywords = lastWrite[key].shared_keywords

\* two finished runs of one owner, each of which wrote a batch while the
\* other was between its upserts
ConcurrentRunsWitness ==
  /\ \A r \in RunIds : runs[r].pc = "done"
  /\ runs[1].user = runs[2].user
  /\ \A r \in RunIds :
       \E k \in 1..Len(runs[r].attempts) :
         runs[r].attempts[k].outcome = "ok" /\ runs[r].attempts[k].during
  /\ links # {}

(***************************************************************************)
(* C9  Owner scoping: a run for owner U fetches only entries of U; every   *)
(* row it prepares carries user_id = U and joins two entries of U; a step  *)
(* of the run leaves the rows of every other owner as they were.           *)
(***************************************************************************)
OwnedIds(uid) ==
  {knowledgebase[k].id :
     k \in {m \in 1..Len(knowledgebase) : knowledgebase[m].user_id = uid}}

OwnerScopingState ==
  /\ \A r \in RunIds :
       /\ \A k \in 1..Len(runs[r].entries) :
            /\ runs[r].entries[k].user_id = runs[r].user
            /\ runs[r].entries[k].id \in OwnedIds(runs[r].user)
       /\ \A k \in Candidates(r) :
            /\ runs[r].linksToInsert[k].user_id = runs[r].user
            /\ runs[r].linksToInsert[k].source_kb_id \in OwnedIds(runs[r].user)
            /\ runs[r].linksToInsert[k].target_kb_id \in OwnedIds(runs[r].user)
  /\ \A row \in links :
       /\ row.source_kb_id \in OwnedIds(row.user_id)
       /\ row.target_kb_id \in OwnedIds(row.user_id)

OwnerScopingStep ==
  \A r \in RunIds :
    runs'[r] # runs[r] =>
      {row \in links : row.user_id # runs'[r].user}
        = {row \in links' : row.user_id # runs'[r].user}

OwnerScoping == []OwnerScopingState /\ [][OwnerScopingStep]_vars

\* both owners have rows in the table, written by two finished runs
OwnerScopingWitness ==
  /\ \A r \in RunIds : runs[r].pc = "done" /\ runs[r].response.linksCreated > 0
  /\ runs[1].user # runs[2].user
  /\ \A r \in RunIds : \E row \in links : row.user_id = runs[r].user

(***************************************************************************)
(* C10 Self-exclusion and orientation: the source of every candidate       *)
(* stands before its target in the fetched list; the ids of the list       *)
(* being distinct, source and target differ and the candidate passes the   *)
(* different_nodes check.                                                  *)
(***************************************************************************)
SelfExclusion ==
  \A r \in Fetched :
    /\ \A a, b \in 1..Len(runs[r].entries) :
         runs[r].entries[a].id = runs[r].entries[b].id => a = b
    /\ \A k \in Candidates(r) :
         LET row == runs[r].linksToInsert[k]
         IN /\ \E a, b \in 1..Len(runs[r].entries) :
                 /\ a < b
                 /\ runs[r].entries[a].id = row.source_kb_id
                 /\ runs[r].entries[b].id = row.target_kb_id
            /\ row.source_kb_id # row.target_kb_id
            /\ different_nodes(row)

\* a candidate that joins the first and the third fetched entry
SelfExclusionWitness ==
  \E r \in Fetched : \E k \in Candidates(r) :
    /\ Len(runs[r].entries) >= 3
    /\ runs[r].linksToInsert[k].source_kb_id = runs[r].entries[1].id
    /\ runs[r].linksToInsert[k].target_kb_id = runs[r].entries[3].id

(***************************************************************************)
(* C11 Empty input: a run whose select answers no data or no entry of the  *)
(* owner ends at once with the 200 result success, linksCreated 0 and the  *)
(* message 'No knowledge base entries found'; it has compared no pair,     *)
(* attempted no upsert and reports no error.                               *)
(***************************************************************************)
EmptyInput ==
  \A r \in RunIds :
    (\/ runs[r].fetched = "null"
     \/ (runs[r].fetched = "rows" /\ OwnedIds(runs[r].user) = {}))
    => /\ runs[r].pc = "done"
       /\ runs[r].response.kind = "no_entries"
       /\ runs[r].response.status = 200
       /\ {"success", "linksCreated", "message"} \subseteq runs[r].response.fields
       /\ "error" \notin runs[r].response.fields
       /\ runs[r].response.linksCreated = 0
       /\ runs[r].comparisons = 0
       /\ runs[r].sims = <<>>
       /\ runs[r].linksToInsert = <<>>
       /\ runs[r].attempts = <<>>
       /\ runs[r].linksAfter = {}

\* an owner without entries got the answer of an empty run
EmptyInputWitness ==
  \E r \in RunIds :
    /\ runs[r].fetched = "rows"
    /\ runs[r].user = "u1"
    /\ OwnedIds("u1") = {}
    /\ runs[r].response = NoEntriesFound

(***************************************************************************)
(* C12 Structured result always: every response that reports a result      *)
(* (status 200: all batches written, some batches failed, no entries)      *)
(* carries totalEntries, comparisons and linksCreated.                     *)
(***************************************************************************)
StructuredResult ==
  \A r \in RunIds :
    (runs[r].pc = "done" /\ runs[r].response.status = 200)
    => {"totalEntries", "comparisons", "linksCreated"}
         \subseteq runs[r].response.fields

(***************************************************************************)
(* C13 Parameters and defaults: the threshold and the cap of a run are the *)
(* minSimilarity and the maxLinks of the request body whenever the body    *)
(* has the field, and 0.15 and 1000 only when it has not.                  *)
(***************************************************************************)
ParametersAndDefaults ==
  \A r \in RunIds :
    (runs[r].user # "none" /\ runs[r].body.json = "object")
    => /\ runs[r].minSimilarity =
            (IF runs[r].body.minSimilarity = Absent
             THEN Rat(15, 100) ELSE runs[r].body.minSimilarity)
       /\ runs[r].maxLinks =
            (IF runs[r].body.maxLinks = Absent
             THEN Rat(1000, 1) ELSE runs[r].body.maxLinks)

(***************************************************************************)
(* C14 KeywordSet invariant: the keyword list that extractKeywords         *)
(* returned for an entry has at most 15 elements, no element twice, only   *)
(* tokens longer than 4 characters without an upper case letter, and no    *)
(* word of the stop-word list.                                             *)
(***************************************************************************)
StopWords ==
  { <<"t","h","a","t">>, <<"t","h","i","s">>, <<"w","i","t","h">>,
    <<"f","r","o","m">>, <<"h","a","v","e">>, <<"t","h","e","i","r">>,
    <<"w","o","u","l","d">>, <<"a","b","o","u","t">>,
    <<"t","h","e","r","e">>, <<"w","h","i","c","h">>,
    <<"c","o","u","l","d">>, <<"o","t","h","e","r">>,
    <<"t","h","e","s","e">>, <<"t","h","o","s","e">>,
    <<"b","e","i","n","g">>, <<"s","h","o","u","l","d">>,
    <<"w","h","e","r","e">>, <<"w","h","i","l","e">>,
    <<"a","f","t","e","r">>, <<"b","e","f","o","r","e">>,
    <<"t","h","r","o","u","g","h">>, <<"d","u","r","i","n","g">>,
    <<"b","e","t","w","e","e","n">> }

KeywordSetInvariant ==
  \A r \in RunIds : \A k \in 1..Len(runs[r].entries) :
    LET keywords == runs[r].entries[k].keywords
    IN /\ Len(keywords) <= 15
       /\ \A a, b \in 1..Len(keywords) : keywords[a] = keywords[b] => a = b
       /\ \A a \in 1..Len(keywords) :
            /\ Len(keywords[a]) > 4
            /\ \A c \in 1..Len(keywords[a]) :
                 /\ keywords[a][c] \notin Range(UpperChars)
                 /\ keywords[a][c] \notin {" ", "\t", "\n", ",", ".", "-"}
            /\ keywords[a] \notin StopWords

\* a run holds the 15 keywords of an entry whose summary has more distinct
\* long words, and the keywords of an entry whose summary repeats words and
\* has stop words, short words and upper case letters
KeywordSetInvariantWitness ==
  \E r \in RunIds :
    /\ Len(runs[r].entries) = 3
    /\ Len(runs[r].entries[1].keywords) = 15
    /\ runs[r].entries[2].keywords
         = <<wAlpha, wGamma, wDelta, <<"w","o","r","d","_","9">>,
             <<"o","m","e","g","a","7">>>>

(***************************************************************************)
(* C15 Extraction never throws: whatever the summaries of the owner's      *)
(* entries are (null, no object, fields that are no arrays, arrays with    *)
(* elements that are no strings), the run does not fail: it holds a        *)
(* keyword list for every entry of the owner, the empty list for each      *)
(* malformed summary and the full list for each well formed one, compares  *)
(* every pair and emits the links of the well formed entries.              *)
(***************************************************************************)
SummaryOf(id) ==
  knowledgebase[CHOOSE k \in 1..Len(knowledgebase) : knowledgebase[k].id = id]
    .summary_json

MalformedSummaries ==
  { [tag |-> "null"], [tag |-> "num"],
    [tag |-> "str", chars |-> <<"a","l","p","h","a"," "," ","g","a","m","m","a">>],
    SummaryBad, SummaryBadIdea, SummaryNotArrays }

ExtractionNeverThrows ==
  \A r \in RunIds :
    runs[r].fetched = "rows"
    => LET run == runs[r]
           n == Len(run.entries)
       IN /\ run.response.kind # "failed"
          /\ {run.entries[k].id : k \in 1..n} = OwnedIds(run.user)
          /\ \A k \in 1..n :
               /\ SummaryOf(run.entries[k].id) \in MalformedSummaries
                    => run.entries[k].keywords = <<>>
               /\ SummaryOf(run.entries[k].id) = SummaryAGD
                    => run.entries[k].keywords = <<wAlpha, wGamma, wDelta>>
          /\ (run.pc = "done" /\ n > 0)
               => /\ run.response.kind = "success"
                  /\ 2 * run.comparisons = n * (n - 1)
                  /\ \A a, b \in 1..n :
                       (/\ a < b
                        /\ SummaryOf(run.entries[a].id) = SummaryAGD
                        /\ SummaryOf(run.entries[b].id) = SummaryAGD)
                       => \E row \in links :
                            /\ row.source_kb_id = run.entries[a].id
                            /\ row.target_kb_id = run.entries[b].id

\* a finished run on a well formed entry, an entry whose key_points hold a
\* number, and a second well formed entry: the two well formed are linked
ExtractionNeverThrowsWitness ==
  \E r \in RunIds :
    /\ runs[r].pc = "done"
    /\ Len(runs[r].entries) = 3
    /\ SummaryOf(runs[r].entries[1].id) = SummaryAGD
    /\ SummaryOf(runs[r].entries[2].id) = SummaryBad
    /\ runs[r].entries[2].keywords = <<>>
    /\ runs[r].response.linksCreated = 1
    /\ \E row \in links :
         /\ row.source_kb_id = runs[r].entries[1].id
         /\ row.target_kb_id = runs[r].entries[3].id

(***************************************************************************)
(* C16 Symmetry of similarity: when calculateSimilarity was applied to     *)
(* the keyword lists (a, b) and to (b, a), the two results have the same   *)
(* similarity and the same shared keywords as a set, and either both       *)
(* pairs were emitted as candidates or neither was.                        *)
(***************************************************************************)
Emitted(r, sim) ==
  \E k \in Candidates(r) :
    /\ runs[r].linksToInsert[k].source_kb_id = runs[r].entries[sim.i + 1].id
    /\ runs[r].linksToInsert[k].target_kb_id = runs[r].entries[sim.j + 1].id

Swapped(r, p, q) ==
  /\ runs[r].entries[p.i + 1].keywords = runs[r].entries[q.j + 1].keywords
  /\ runs[r].entries[p.j + 1].keywords = runs[r].entries[q.i + 1].keywords

SimilaritySymmetry ==
  \A r \in RunIds : \A m, n \in 1..Len(runs[r].sims) :
    LET p == runs[r].sims[m]
        q == runs[r].sims[n]
    IN Swapped(r, p, q)
       => /\ p.result.similarity = q.result.similarity
          /\ Range(p.result.sharedKeywords) = Range(q.result.sharedKeywords)
          /\ Emitted(r, p) <=> Emitted(r, q)

\* the function was applied to (a, b) and to (b, a) for two different
\* lists that share keywords in different orders; both pairs were emitted
SimilaritySymmetryWitness ==
  \E r \in RunIds : \E m, n \in 1..Len(runs[r].sims) :
    LET p == runs[r].sims[m]
        q == runs[r].sims[n]
    IN /\ Swapped(r, p, q)
       /\ runs[r].entries[p.i + 1].keywords # runs[r].entries[p.j + 1].keywords
       /\ Len(runs[r].entries[p.i + 1].keywords)
            # Len(runs[r].entries[p.j + 1].keywords)
       /\ p.result.sharedKeywords # q.result.sharedKeywords
       /\ Len(p.result.sharedKeywords) >= 2
       /\ Emitted(r, p)
       /\ Emitted(r, q)

(***************************************************************************)
(* C19 Jaccard definition: every result of calculateSimilarity on the      *)
(* duplicate-free keyword lists a and b has similarity |a intersect b| /   *)
(* |a union b| when the union is not empty and exactly 0 when both lists   *)
(* are empty; the similarity lies in [0, 1] and is 1 exactly when the      *)
(* lists are not empty and equal as sets.                                  *)
(***************************************************************************)
JaccardDefinition ==
  \A r \in RunIds : \A m \in 1..Len(runs[r].sims) :
    LET p == runs[r].sims[m]
        a == Range(runs[r].entries[p.i + 1].keywords)
        b == Range(runs[r].entries[p.j + 1].keywords)
        similarity == p.result.similarity
    IN /\ (a \cup b # {})
            => similarity[1] * Cardinality(a \cup b)
                 = Cardinality(a \cap b) * similarity[2]
       /\ (a \cup b = {}) => similarity = <<0, 1>>
       /\ similarity[2] > 0
       /\ 0 <= similarity[1]
       /\ similarity[1] <= similarity[2]
       /\ (similarity[1] = similarity[2]) <=> (a # {} /\ a = b)

\* the function was applied to two empty lists and returned 0
JaccardDefinitionWitness ==
  \E r \in RunIds : \E m \in 1..Len(runs[r].sims) :
    LET p == runs[r].sims[m]
    IN /\ runs[r].entries[p.i + 1].keywords = <<>>
       /\ runs[r].entries[p.j + 1].keywords = <<>>
       /\ SummaryOf(runs[r].entries[p.i + 1].id)
            # SummaryOf(runs[r].entries[p.j + 1].id)
       /\ p.result.similarity = <<0, 1>>
       /\ runs[r].pc = "done"

(***************************************************************************)
(* C17 Cap truncates by iteration order: the pairs a run has compared are  *)
(* the first pairs in the order i ascending, then j ascending, without a   *)
(* gap; its candidates are compared pairs that pass the gate, in strictly  *)
(* ascending order and as many as there are compared pairs that pass, so   *)
(* they are exactly those pairs in order; the list never exceeds the       *)
(* effective cap, and once it has reached the cap the loops have stopped   *)
(* and the last compared pair is the one that gave the last candidate. A   *)
(* run that ends below the cap has compared every pair. So a capped list   *)
(* is the prefix of length maxLinks of the list of all passing pairs,      *)
(* whatever their strengths.                                               *)
(***************************************************************************)
PassesInProperty(r, a, b) ==
  LET e1 == runs[r].entries[a]
      e2 == runs[r].entries[b]
  IN /\ RatLeq(runs[r].minSimilarity, Jaccard(e1.keywords, e2.keywords))
     /\ Cardinality(SharedSet(e1.keywords, e2.keywords)) >= 2

\* the compared pairs that pass the gate, as positions of the history
PassingSims(r) ==
  {m \in 1..Len(runs[r].sims) :
     PassesInProperty(r, runs[r].sims[m].i + 1, runs[r].sims[m].j + 1)}

CapTruncatesByOrder ==
  \A r \in RunIds :
    LET run == runs[r]
        n == Len(run.entries)
        sims == run.sims
        list == run.linksToInsert
        \* the positions in the fetched list of the k-th candidate
        src(k) == IndexOf(r, list[k].source_kb_id)
        tgt(k) == IndexOf(r, list[k].target_kb_id)
        last == sims[Len(sims)]
    IN /\ Len(sims) = run.comparisons
       /\ Len(sims) > 0 => (sims[1].i = 0 /\ sims[1].j = 1)
       /\ \A m \in 1..(Len(sims) - 1) :
            IF sims[m].j + 1 < n
            THEN sims[m + 1].i = sims[m].i /\ sims[m + 1].j = sims[m].j + 1
            ELSE /\ sims[m + 1].i = sims[m].i + 1
                 /\ sims[m + 1].j = sims[m].i + 2
       /\ \A k \in 1..Len(list) :
            /\ src(k) < tgt(k)
            /\ PassesInProperty(r, src(k), tgt(k))
            /\ \/ src(k) < last.i + 1
               \/ (src(k) = last.i + 1 /\ tgt(k) <= last.j + 1)
            /\ k < Len(list)
                 => \/ src(k) < src(k + 1)
                    \/ (src(k) = src(k + 1) /\ tgt(k) < tgt(k + 1))
       /\ Len(list) = Cardinality(PassingSims(r))
       /\ RatLeq(Rat(Len(list), 1), run.maxLinks)
       /\ (Len(list) > 0 /\ Rat(Len(list), 1) = run.maxLinks)
            => /\ run.pc # "loop"
               /\ src(Len(list)) = last.i + 1
               /\ tgt(Len(list)) = last.j + 1
       /\ (run.pc \in {"upsert", "done"} /\ n > 0
           /\ RatLess(Rat(Len(list), 1), run.maxLinks))
            => 2 * Len(sims) = n * (n - 1)

\* a run stopped at its cap before a pair that passes the gate and is
\* stronger than a candidate of the list
CapTruncatesByOrderWitness ==
  \E r \in RunIds :
    /\ runs[r].pc \in {"upsert", "done"}
    /\ Len(runs[r].linksToInsert) > 0
    /\ Rat(Len(runs[r].linksToInsert), 1) = runs[r].maxLinks
    /\ 2 * runs[r].comparisons < Len(runs[r].entries) * (Len(runs[r].entries) - 1)
    /\ \E a, b \in 1..Len(runs[r].entries) :
         /\ a < b
         /\ PassesInProperty(r, a, b)
         /\ \A m \in 1..Len(runs[r].sims) :
              ~(runs[r].sims[m].i + 1 = a /\ runs[r].sims[m].j + 1 = b)
         /\ \E k \in Candidates(r) :
              RatLess(runs[r].linksToInsert[k].link_strength,
                      Jaccard(runs[r].entries[a].keywords,
                              runs[r].entries[b].keywords))

(***************************************************************************)
(* C20 Category bonus: the link_strength of every candidate is             *)
(* min(similarity + 0.10, 1.0) when its two entries have equal categories  *)
(* and the similarity itself when they differ, the similarity being the    *)
(* Jaccard coefficient of the two keyword lists; so the strength is at     *)
(* least the similarity, which is at least the effective minSimilarity.    *)
(***************************************************************************)
CategoryBonus ==
  \A r \in Fetched : \A k \in Candidates(r) :
    LET row == runs[r].linksToInsert[k]
        e1 == runs[r].entries[IndexOf(r, row.source_kb_id)]
        e2 == runs[r].entries[IndexOf(r, row.target_kb_id)]
        similarity == Jaccard(e1.keywords, e2.keywords)
        boosted == <<10 * similarity[1] + similarity[2], 10 * similarity[2]>>
    IN /\ (e1.category = e2.category)
            => (IF boosted[1] <= boosted[2]
                THEN row.link_strength[1] * boosted[2]
                       = boosted[1] * row.link_strength[2]
                ELSE row.link_strength = <<1, 1>>)
       /\ (e1.category # e2.category) => row.link_strength = similarity
       /\ RatLeq(similarity, row.link_strength)
       /\ RatLeq(runs[r].minSimilarity, similarity)

\* one run holds a candidate of two entries of one category, with the bonus
\* and below 1, and a candidate of two entries of different categories
CategoryBonusWitness ==
  \E r \in Fetched : \E k, m \in Candidates(r) :
    LET rowK == runs[r].linksToInsert[k]
        rowM == runs[r].linksToInsert[m]
        k1 == runs[r].entries[IndexOf(r, rowK.source_kb_id)]
        k2 == runs[r].entries[IndexOf(r, rowK.target_kb_id)]
        m1 == runs[r].entries[IndexOf(r, rowM.source_kb_id)]
        m2 == runs[r].entries[IndexOf(r, rowM.target_kb_id)]
    IN /\ k1.category = k2.category
       /\ RatLess(Jaccard(k1.keywords, k2.keywords), rowK.link_strength)
       /\ RatLess(rowK.link_strength, <<1, 1>>)
       /\ m1.category # m2.category
       /\ rowM.link_strength = Jaccard(m1.keywords, m2.keywords)

(***************************************************************************)
(* C18 Lifecycle / frame: no step of a run removes a row from the links    *)
(* table or changes a stored row whose (owner, source, target) key is not  *)
(* in the batch it writes; a successful upsert leaves the stored rows      *)
(* overridden by the rows of the batch (an existing row keeps its id) and  *)
(* any other step leaves the table as it is. Every key that was ever       *)
(* written stays stored, also when a later run no longer emits it.         *)
(***************************************************************************)
CandidateKeys(r) ==
  {LinkKey(runs[r].linksToInsert[k]) : k \in Candidates(r)}

\* the values of a row that an upsert may set
RowValues(row) ==
  [link_type |-> row.link_type, link_strength |-> row.link_strength,
   shared_keywords |-> row.shared_keywords]

LifecycleFrameState == DOMAIN lastWrite = Keys(links)

LifecycleFrameStep ==
  \A r \in RunIds :
    runs'[r] # runs[r] =>
      LET wrote == /\ Len(runs'[r].attempts) > Len(runs[r].attempts)
                   /\ runs'[r].attempts[Len(runs'[r].attempts)].outcome = "ok"
          batch == BatchAt(runs[r].linksToInsert, runs[r].batchStart)
          batchKeys == {LinkKey(batch[k]) : k \in 1..Len(batch)}
      IN /\ Keys(links) \subseteq Keys(links')
         /\ \A row \in links :
              LinkKey(row) \notin CandidateKeys(r) => row \in links'
         /\ ~wrote => links' = links
         /\ wrote =>
              /\ Keys(links') = Keys(links) \cup batchKeys
              /\ Cardinality(links') = Cardinality(Keys(links'))
              /\ \A row \in links :
                   IF LinkKey(row) \in batchKeys
                   THEN \E new \in links' :
                          new.id = row.id /\ LinkKey(new) = LinkKey(row)
                   ELSE row \in links'
              /\ \A k \in 1..Len(batch) : \E new \in links' :
                   /\ LinkKey(new) = LinkKey(batch[k])
                   /\ RowValues(new) = RowValues(batch[k])

LifecycleFrame == []LifecycleFrameState /\ [][LifecycleFrameStep]_vars

\* a run has written its candidates into a table that held a row of the
\* same owner for a pair that does not pass the gate of this run; the row
\* is still stored
LifecycleFrameWitness ==
  \E r \in RunIds : \E row \in links :
    /\ runs[r].pc = "done"
    /\ runs[r].response.linksCreated > 0
    /\ row \in runs[r].linksAfter
    /\ row.user_id = runs[r].user
    /\ LinkKey(row) \notin CandidateKeys(r)
    /\ ~PassesInProperty(r, IndexOf(r, row.source_kb_id),
                         IndexOf(r, row.target_kb_id))

(***************************************************************************)
(* C21 Shared keywords: the shared_keywords of every candidate are, as a   *)
(* set, the tokens that both entries' keyword lists hold; no token occurs  *)
(* twice; they stand in the order of the keyword list of the source        *)
(* entry; there are at least 2 of them.                                    *)
(***************************************************************************)
PositionIn(list, x) == CHOOSE k \in 1..Len(list) : list[k] = x

SharedKeywordsOrder ==
  \A r \in Fetched : \A k \in Candidates(r) :
    LET row == runs[r].linksToInsert[k]
        source == runs[r].entries[IndexOf(r, row.source_kb_id)]
        target == runs[r].entries[IndexOf(r, row.target_kb_id)]
        shared == row.shared_keywords
    IN /\ Range(shared) = Range(source.keywords) \cap Range(target.keywords)
       /\ \A a, b \in 1..Len(shared) : shared[a] = shared[b] => a = b
       /\ \A a, b \in 1..Len(shared) :
            a < b => PositionIn(source.keywords, shared[a])
                       < PositionIn(source.keywords, shared[b])
       /\ Len(shared) >= 2
       /\ IndexOf(r, row.source_kb_id) < IndexOf(r, row.target_kb_id)

\* a candidate whose target lists the shared tokens in another order
SharedKeywordsOrderWitness ==
  \E r \in Fetched : \E k \in Candidates(r) :
    LET row == runs[r].linksToInsert[k]
        source == runs[r].entries[IndexOf(r, row.source_kb_id)]
        target == runs[r].entries[IndexOf(r, row.target_kb_id)]
        shared == row.shared_keywords
    IN /\ Len(shared) >= 3
       /\ Len(target.keywords) > Len(shared)
       /\ \E a, b \in 1..Len(shared) :
            /\ a < b
            /\ PositionIn(target.keywords, shared[a])
                 > PositionIn(target.keywords, shared[b])

(***************************************************************************)
(* C22 Extraction order and truncation: for a summary whose key_points     *)
(* and main_ideas are arrays of strings (or absent), the keyword list of   *)
(* the entry is the sequence of the tokens of the key points followed by   *)
(* the tokens of the main ideas, reduced to the first occurrences of the   *)
(* tokens that are no stop-words, and then cut to its first 15 elements.   *)
(***************************************************************************)
StringItems(field) ==
  IF field.tag = "arr" THEN field.items ELSE <<>>

WellFormed(summary) ==
  /\ summary.tag = "obj"
  /\ \A k \in 1..Len(StringItems(summary.key_points)) :
       StringItems(summary.key_points)[k].tag = "str"
  /\ \A k \in 1..Len(StringItems(summary.main_ideas)) :
       StringItems(summary.main_ideas)[k].tag = "str"

\* the tokens of the key points, then those of the main ideas
RawTokens(summary) ==
  LET kp == StringItems(summary.key_points)
      mi == StringItems(summary.main_ideas)
  IN Flatten([k \in 1..Len(kp) |-> PointWords(kp[k].chars)])
       \o Flatten([k \in 1..Len(mi) |-> PointWords(mi[k].chars)])

\* the positions of the first occurrences of the tokens that are no
\* stop-words
FirstOccurrences(tokens) ==
  {p \in 1..Len(tokens) :
     /\ tokens[p] \notin StopWords
     /\ \A q \in 1..(p - 1) : tokens[q] # tokens[p]}

ExtractionOrder ==
  \A r \in RunIds : \A k \in 1..Len(runs[r].entries) :
    LET summary == SummaryOf(runs[r].entries[k].id)
        keywords == runs[r].entries[k].keywords
    IN WellFormed(summary)
       => LET tokens == RawTokens(summary)
              firsts == FirstOccurrences(tokens)
              nth(m) == CHOOSE p \in firsts :
                          Cardinality({q \in firsts : q <= p}) = m
          IN /\ Len(keywords) =
                  (IF Cardinality(firsts) < 15 THEN Cardinality(firsts) ELSE 15)
             /\ \A m \in 1..Len(keywords) : keywords[m] = tokens[nth(m)]

\* an entry whose first 15 raw tokens hold repeated words and a stop-word:
\* its list has 15 keywords and ends with the ninth token of the main ideas
ExtractionOrderWitness ==
  \E r \in RunIds : \E k \in 1..Len(runs[r].entries) :
    LET summary == SummaryOf(runs[r].entries[k].id)
        keywords == runs[r].entries[k].keywords
    IN /\ summary = SummaryMix
       /\ Len(RawTokens(summary)) > 15
       /\ Len(keywords) = 15
       /\ SubSeq(keywords, 1, 6)
            = <<wAlpha, wGamma, wDelta, wOmega, wSigma, wKappa>>
       /\ keywords[15] = <<"w","o","r","d","i">>

(***************************************************************************)
(* C23 Tokenization character classes: every character of a point that is *)
(* no letter, digit or whitespace separates tokens, the underscore         *)
(* included, so the keywords of an entry consist of letters and digits     *)
(* only.                                                                   *)
(***************************************************************************)
TokenizationClasses ==
  \A r \in RunIds : \A k \in 1..Len(runs[r].entries) :
    LET keywords == runs[r].entries[k].keywords
    IN \A a \in 1..Len(keywords) : \A c \in 1..Len(keywords[a]) :
         keywords[a][c] \in Range(UpperChars) \cup Range(LowerChars)
           \cup DigitChars

(***************************************************************************)
(* C24 Comparison counter: the comparisons value of the success response   *)
(* is the number of pairs (i, j), i < j, that the run examined: n(n-1)/2   *)
(* for n entries when the list of candidates stayed below the cap, and the *)
(* number of pairs in lexicographic order up to and including the pair of  *)
(* the last candidate when the cap was reached.                            *)
(***************************************************************************)
\* the number of pairs up to and including (a, b), 1 <= a < b <= n, in
\* lexicographic order
PairRank(a, b, n) == ((a - 1) * (2 * n - a)) \div 2 + (b - a)

ComparisonCounter ==
  \A r \in RunIds :
    LET run == runs[r]
        n == Len(run.entries)
        list == run.linksToInsert
        lastLink == list[Len(list)]
    IN (run.pc = "done" /\ run.response.kind = "success")
       => /\ run.response.comparisons = Len(run.sims)
          /\ RatLess(Rat(Len(list), 1), run.maxLinks)
               => 2 * run.response.comparisons = n * (n - 1)
          /\ RatLeq(run.maxLinks, Rat(Len(list), 1))
               => /\ Rat(Len(list), 1) = run.maxLinks
                  /\ run.response.comparisons =
                       PairRank(IndexOf(r, lastLink.source_kb_id),
                                IndexOf(r, lastLink.target_kb_id), n)

\* a finished run that stopped at its cap after a pair that gave no
\* candidate, having examined fewer pairs than there are
ComparisonCounterWitness ==
  \E r \in RunIds :
    LET run == runs[r]
        n == Len(run.entries)
    IN /\ run.pc = "done"
       /\ run.response.kind = "success"
       /\ Rat(Len(run.linksToInsert), 1) = run.maxLinks
       /\ run.response.comparisons > Len(run.linksToInsert)
       /\ 2 * run.response.comparisons < n * (n - 1)

(***************************************************************************)
(* C25 Unexpected errors: an exception inside the handler (the error of    *)
(* the entry fetch, the read of an option of a null body) ends the run     *)
(* with the generic failure response, status 500 with error and details;   *)
(* the failure response has no other cause; after a failed fetch no pair   *)
(* was compared and no upsert attempted, and the step that answers leaves  *)
(* the link table as it was.                                               *)
(***************************************************************************)
IsGenericFailure(resp) ==
  /\ resp.status = 500
  /\ resp.kind = "failed"
  /\ resp.fields = {"error", "details"}

UnexpectedErrorsState ==
  \A r \in RunIds :
    LET run == runs[r]
    IN /\ run.fetched = "error"
            => /\ run.pc = "done"
               /\ IsGenericFailure(run.response)
               /\ run.sims = <<>>
               /\ run.comparisons = 0
               /\ run.linksToInsert = <<>>
               /\ run.attempts = <<>>
               /\ run.linksAfter = links
       /\ (run.user # "none" /\ run.body.json = "null")
            => /\ run.pc = "done"
               /\ IsGenericFailure(run.response)
               /\ run.fetched = "none"
               /\ run.attempts = <<>>
       /\ run.response.kind = "failed"
            => (run.fetched = "error" \/ run.body.json = "null")

UnexpectedErrorsStep ==
  \A r \in RunIds :
    (runs[r].fetched = "none" /\ runs'[r].fetched = "error")
    => /\ links' = links
       /\ nextLinkId' = nextLinkId
       /\ lastWrite' = lastWrite

UnexpectedErrors ==
  []UnexpectedErrorsState /\ [][UnexpectedErrorsStep]_vars

\* the fetch failed for an owner who has entries that would pair up
UnexpectedErrorsWitness ==
  \E r \in RunIds :
    /\ runs[r].fetched = "error"
    /\ runs[r].response.kind = "failed"
    /\ Cardinality(OwnedIds(runs[r].user)) >= 2

(***************************************************************************)
(* C26 Unique keys within one run: the fetched entries have pairwise       *)
(* distinct ids, and the candidate list of a run has no two links for the  *)
(* same pair of entries, in the same or in the reversed orientation; so    *)
(* no attempted batch holds two rows with the same (owner, source, target) *)
(* key and no upsert is refused for a conflict inside its batch.           *)
(***************************************************************************)
\* the two entries that a link joins, without orientation
Ends(row) == {row.source_kb_id, row.target_kb_id}

\* the rows of the batch that attempt k of run r sent
AttemptedBatch(r, k) ==
  SubSeq(runs[r].linksToInsert, runs[r].attempts[k].start + 1,
         runs[r].attempts[k].start + runs[r].attempts[k].size)

UniqueKeysWithinRun ==
  \A r \in RunIds :
    LET run == runs[r]
        list == run.linksToInsert
    IN /\ Cardinality({run.entries[k].id : k \in 1..Len(run.entries)})
            = Len(run.entries)
       /\ \A k \in Candidates(r) : Cardinality(Ends(list[k])) = 2
       /\ Cardinality({Ends(list[k]) : k \in Candidates(r)}) = Len(list)
       /\ Cardinality(CandidateKeys(r)) = Len(list)
       /\ \A k \in 1..Len(run.attempts) :
            LET batch == AttemptedBatch(r, k)
            IN /\ Cardinality(Keys(Range(batch))) = Len(batch)
               /\ Len(batch) = run.attempts[k].size
               /\ StoreAccepts(batch, run.user)

\* a batch of several rows was written, among them links that have an
\* entry in common
UniqueKeysWithinRunWitness ==
  \E r \in RunIds :
    /\ Len(runs[r].attempts) > 0
    /\ runs[r].attempts[1].outcome = "ok"
    /\ runs[r].attempts[1].size >= 3
    /\ \E a, b \in 1..3 :
         /\ a < b
         /\ runs[r].linksToInsert[a].target_kb_id
              = runs[r].linksToInsert[b].source_kb_id

(***************************************************************************)
(* C27 Authentication precedes all store access: a request without an      *)
(* authorization header, or with a token that getUser does not resolve to  *)
(* a user, is answered 401 Unauthorized without an entry fetch and without *)
(* an upsert; the select is answered, an upsert is answered and the link   *)
(* table changes only in a step of a run whose owner is resolved.          *)
(***************************************************************************)
NotAuthenticated(run) == run.authHeader \notin Owners

AuthenticationFirstState ==
  \A r \in RunIds :
    LET run == runs[r]
    IN /\ (run.pc = "done" /\ NotAuthenticated(run))
            => /\ run.response.status = 401
               /\ run.response.kind = "unauthorized"
               /\ run.user = "none"
               /\ run.fetched = "none"
               /\ run.entries = <<>>
               /\ run.attempts = <<>>
       /\ NotAuthenticated(run) => run.pc \in {"idle", "getUser", "done"}
       /\ (run.fetched # "none" \/ run.attempts # <<>>
           \/ run.pc \in {"fetch", "loop", "upsert"})
            => (run.user \in Owners /\ run.user = run.authHeader)

AuthenticationFirstStep ==
  /\ \A r \in RunIds :
       (runs'[r].fetched # runs[r].fetched
        \/ runs'[r].attempts # runs[r].attempts)
       => runs[r].user \in Owners
  /\ links' # links
       => \E r \in RunIds :
            /\ runs[r].user \in Owners
            /\ Len(runs'[r].attempts) = Len(runs[r].attempts) + 1

AuthenticationFirst ==
  []AuthenticationFirstState /\ [][AuthenticationFirstStep]_vars

\* a request with a token that is no user's was answered while the
\* knowledge base holds entries
AuthenticationFirstWitness ==
  \E r \in RunIds :
    /\ runs[r].pc = "done"
    /\ runs[r].authHeader = "invalid"
    /\ runs[r].response.status = 401
    /\ Len(knowledgebase) > 4

(***************************************************************************)
(* C28 Sliding-window rate limit: for every user and path, the calls of    *)
(* createRateLimiter that were not limited and whose times lie within an   *)
(* interval shorter than windowMs are at most maxRequests of the path.     *)
(* Every such interval ends with a call, so the calls within the window    *)
(* that ends now are counted.                                              *)
(***************************************************************************)
SlidingWindowLimit ==
  \A key \in DOMAIN accepted :
    Len(accepted[key]) <= ConfigOf(key[2]).maxRequests

(***************************************************************************)
(* C30 Rejected requests are not recorded: a createRateLimiter call that   *)
(* returns isLimited = true leaves the cached list of every key as it was; *)
(* isLimited is true exactly when remaining is 0; the resetTime of a       *)
(* limited call is the oldest cached timestamp of the window plus          *)
(* windowMs and is later than the call; and a call made when the oldest    *)
(* cached timestamp of its key is windowMs old or older is not limited, so *)
(* rejected calls do not postpone the next admission.                      *)
(***************************************************************************)
\* the lists of the cache, by key
CachedLists(cache) ==
  {<<cache[k].key, cache[k].value>> : k \in 1..Len(cache)}

\* the list that the cache holds for the key, empty when it holds none
CachedList(cache, key) ==
  IF CacheIndex(cache, key) = 0 THEN <<>>
  ELSE cache[CacheIndex(cache, key)].value

RejectedNotRecordedState ==
  /\ lastCall.isLimited <=> (lastCall.seq > 0 /\ lastCall.remaining = 0)
  /\ lastCall.isLimited => lastCall.resetTime > lastCall.at

RejectedNotRecordedStep ==
  lastCall'.seq # lastCall.seq
  => LET call == lastCall'
         windowMs == ConfigOf(call.endpoint).windowMs
         before == CachedList(rateLimitCache,
                              CacheKey(call.userId, call.endpoint))
         live == {k \in 1..Len(before) : call.at - before[k] < windowMs}
     IN /\ call.isLimited
             => /\ CachedLists(rateLimitCache') = CachedLists(rateLimitCache)
                /\ live # {}
                /\ \A k \in live :
                     /\ call.resetTime <= before[k] + windowMs
                     /\ call.resetTime > call.at
                /\ \E k \in live : call.resetTime = before[k] + windowMs
        /\ (before # <<>> /\ call.at >= before[1] + windowMs)
             => ~call.isLimited

RejectedNotRecorded ==
  []RejectedNotRecordedState /\ [][RejectedNotRecordedStep]_vars

\* a limited call after the clock advanced: the oldest timestamp of its
\* list is older than the call and the key is not yet admitted
RejectedNotRecordedWitness ==
  /\ lastCall.isLimited
  /\ lastCall.at > 0
  /\ lastCall.resetTime < lastCall.at + ConfigOf(lastCall.endpoint).windowMs
  /\ \E s \in Slots : inflight[s].stage = "quota" /\ inflight[s].isLimited

(***************************************************************************)
(* C29 Process-pdf allowance: every process-pdf request is counted once    *)
(* for the key of its user and the path, so a user with quota remaining    *)
(* has 10 requests accepted within one minute: a request of a user that is *)
(* answered 429 while the quota check allowed it is at least the 11th      *)
(* process-pdf request of that user within the window, and the calls       *)
(* recorded for the key within a window are no more than the requests.     *)
(***************************************************************************)
ProcessPdfAllowance ==
  /\ (/\ lastResponse.status = 429
      /\ lastResponse.path = ProcessPdf
      /\ lastResponse.userId # Anonymous
      /\ lastResponse.quotaOk)
       => lastResponse.nth > ConfigOf(ProcessPdf).maxRequests
  /\ \A u \in Owners :
       Len(accepted[<<u, ProcessPdf>>]) <= Len(pdfArrived[u])
====
